---------------------------- MODULE Spec2Model ----------------------------
(***************************************************************************)
(* A model of the Partially Signed Koyotecoin Transaction (PSKT) engine:   *)
(* the data model, the merge/combine algebra, input signing, finalization  *)
(* and extraction.                                                         *)
(*                                                                         *)
(* Conventions                                                             *)
(*   - std::map / std::set values are sets of <<key, value>> pairs with    *)
(*     unique keys, so two maps are equal iff they hold the same entries.  *)
(*   - std::optional / CTransactionRef values are sequences of length at   *)
(*     most one: <<>> is "absent", <<x>> is "present with value x".        *)
(*   - scripts and byte strings are strings, "" being the empty one;       *)
(*     a scriptSig or a witness stack is a sequence of pushed items.       *)
(***************************************************************************)
EXTENDS Integers, Sequences, FiniteSets, TLC

VARIABLES
    pskts,      \* the PSKT held in each slot (a party's copy of a PSKT)
    last,       \* the last operation: its name, arguments, return value, output
    signedBy,   \* per slot: the signers that worked on the copy handed to them
    dialog      \* the PSKT dialog: its wallet and the state of its buttons

vars == <<pskts, last, signedBy, dialog>>

Slots == {"a", "b", "c"}

-----------------------------------------------------------------------------
(* Generic helpers for the containers of the C++ code *)

\* std::map::insert(first, last): entries whose key is already present are kept.
MapInsert(m, n) == m \cup {e \in n : \A f \in m : f[1] # e[1]}

MapKeys(m) == {e[1] : e \in m}

MapGet(m, k) == (CHOOSE e \in m : e[1] = k)[2]

IsMap(m) == \A e \in m : \A f \in m : e[1] = f[1] => e = f

-----------------------------------------------------------------------------
(* Transaction primitives *)

\* CTxOut() / CTxOut::SetNull: nValue = -1 and an empty script.
NullTxOut == [nValue |-> -1, scriptPubKey |-> ""]

\* CTxOut::IsNull
TxOutIsNull(out) == out.nValue = -1

\* CMutableTransaction::GetHash: the hash of the serialization without
\* witness data; a collision-free hash is its own preimage here.
GetHash(tx) ==
    [nVersion  |-> tx.nVersion,
     vin       |-> [i \in DOMAIN tx.vin |->
                      [prevout   |-> tx.vin[i].prevout,
                       scriptSig |-> tx.vin[i].scriptSig,
                       nSequence |-> tx.vin[i].nSequence]],
     vout      |-> tx.vout,
     nLockTime |-> tx.nLockTime]

\* operator==(const CTxIn&, const CTxIn&) as used by std::find in AddInput:
\* an input is the same input when it spends the same outpoint.
CTxInEq(x, y) == x.prevout = y.prevout

MakeTxIn(hash, n) ==
    [prevout |-> [hash |-> hash, n |-> n], scriptSig |-> <<>>,
     scriptWitness |-> <<>>, nSequence |-> 0]

MakeTx(vin, vout, locktime) ==
    [nVersion |-> 2, vin |-> vin, vout |-> vout, nLockTime |-> locktime]


-----------------------------------------------------------------------------
(* The PSKT data model *)

\* PSKTInput(): every attribute absent or empty.
BlankInput ==
    [non_witness_utxo     |-> <<>>,
     witness_utxo         |-> NullTxOut,
     partial_sigs         |-> {},
     sighash_type         |-> <<>>,
     redeem_script        |-> "",
     witness_script       |-> "",
     hd_keypaths          |-> {},
     final_script_sig     |-> <<>>,
     final_script_witness |-> <<>>,
     ripemd160_preimages  |-> {},
     sha256_preimages     |-> {},
     hash160_preimages    |-> {},
     hash256_preimages    |-> {},
     m_tap_key_sig        |-> "",
     m_tap_script_sigs    |-> {},
     m_tap_scripts        |-> {},
     m_tap_bip32_paths    |-> {},
     m_tap_internal_key   |-> "",
     m_tap_merkle_root    |-> "",
     m_proprietary        |-> {},
     unknown              |-> {}]

\* PSKTOutput(): every attribute absent or empty.
BlankOutput ==
    [redeem_script      |-> "",
     witness_script     |-> "",
     hd_keypaths        |-> {},
     m_tap_internal_key |-> "",
     m_tap_tree         |-> <<>>,
     m_tap_bip32_paths  |-> {},
     m_proprietary      |-> {},
     unknown            |-> {}]

\* PartiallySignedTransaction(const CMutableTransaction& tx): one empty record
\* per input and per output of tx.
PartiallySignedTransaction(tx) ==
    [tx            |-> tx,
     inputs        |-> [i \in 1..Len(tx.vin) |-> BlankInput],
     outputs       |-> [i \in 1..Len(tx.vout) |-> BlankOutput],
     m_xpubs       |-> {},
     m_version     |-> <<>>,
     m_proprietary |-> {},
     unknown       |-> {}]

\* PSKTInput::Merge, the two UTXO forms: taken from the other record only
\* where this record has none.
PSKTInput_MergeUtxos(self, input) ==
    [self EXCEPT
       !.non_witness_utxo =
           IF self.non_witness_utxo = <<>> /\ input.non_witness_utxo # <<>>
           THEN input.non_witness_utxo ELSE @,
       !.witness_utxo =
           IF TxOutIsNull(self.witness_utxo) /\ ~TxOutIsNull(input.witness_utxo)
           THEN input.witness_utxo ELSE @]

\* A merge of the map-valued fields that leaves the partial signatures of the
\* other record behind.
PSKTInput_MergeMaps_NoSigs(self, input) ==
    [self EXCEPT
       !.hd_keypaths = MapInsert(@, input.hd_keypaths),
       !.unknown     = MapInsert(@, input.unknown)]

\* PSKTInput::Merge, the map-valued fields: std::map::insert of the other
\* record's entries.
PSKTInput_MergeMaps(self, input) ==
    [self EXCEPT
       !.partial_sigs        = MapInsert(@, input.partial_sigs),
       !.ripemd160_preimages = MapInsert(@, input.ripemd160_preimages),
       !.sha256_preimages    = MapInsert(@, input.sha256_preimages),
       !.hash160_preimages   = MapInsert(@, input.hash160_preimages),
       !.hash256_preimages   = MapInsert(@, input.hash256_preimages),
       !.hd_keypaths         = MapInsert(@, input.hd_keypaths),
       !.unknown             = MapInsert(@, input.unknown),
       !.m_tap_script_sigs   = MapInsert(@, input.m_tap_script_sigs),
       !.m_tap_scripts       = MapInsert(@, input.m_tap_scripts),
       !.m_tap_bip32_paths   = MapInsert(@, input.m_tap_bip32_paths)]

\* PSKTInput::Merge, the scalar fields: filled only where empty or null.
PSKTInput_MergeScalars(self, input) ==
    [self EXCEPT
       !.redeem_script =
           IF self.redeem_script = "" /\ input.redeem_script # ""
           THEN input.redeem_script ELSE @,
       !.witness_script =
           IF self.witness_script = "" /\ input.witness_script # ""
           THEN input.witness_script ELSE @,
       !.final_script_sig =
           IF self.final_script_sig = <<>> /\ input.final_script_sig # <<>>
           THEN input.final_script_sig ELSE @,
       !.final_script_witness =
           IF self.final_script_witness = <<>> /\ input.final_script_witness # <<>>
           THEN input.final_script_witness ELSE @,
       !.m_tap_key_sig =
           IF self.m_tap_key_sig = "" /\ input.m_tap_key_sig # ""
           THEN input.m_tap_key_sig ELSE @,
       !.m_tap_internal_key =
           IF self.m_tap_internal_key = "" /\ input.m_tap_internal_key # ""
           THEN input.m_tap_internal_key ELSE @,
       !.m_tap_merkle_root =
           IF self.m_tap_merkle_root = "" /\ input.m_tap_merkle_root # ""
           THEN input.m_tap_merkle_root ELSE @]

\* A merge of input records that assigns final_script_sig without testing
\* that this record's is empty.
PSKTInput_Merge_Overwrite(self, input) ==
    [PSKTInput_MergeScalars(
        PSKTInput_MergeMaps(PSKTInput_MergeUtxos(self, input), input), input)
     EXCEPT !.final_script_sig = input.final_script_sig]

\* A merge of input records that fills redeem_script from the other record's
\* witness_script.
PSKTInput_Merge_WrongField(self, input) ==
    [PSKTInput_MergeScalars(
        PSKTInput_MergeMaps(PSKTInput_MergeUtxos(self, input), input), input)
     EXCEPT !.redeem_script =
        IF self.redeem_script = "" /\ input.witness_script # ""
        THEN input.witness_script ELSE self.redeem_script]

\* A merge of input records that leaves the map-valued fields alone.
PSKTInput_Merge_NoMaps(self, input) ==
    PSKTInput_MergeScalars(PSKTInput_MergeUtxos(self, input), input)

\* PSKTInput::Merge
PSKTInput_Merge(self, input) ==
    PSKTInput_MergeScalars(
        PSKTInput_MergeMaps(PSKTInput_MergeUtxos(self, input), input), input)

\* PSKTOutput::Merge
PSKTOutput_Merge(self, output) ==
    [self EXCEPT
       !.hd_keypaths       = MapInsert(@, output.hd_keypaths),
       !.unknown           = MapInsert(@, output.unknown),
       !.m_tap_bip32_paths = MapInsert(@, output.m_tap_bip32_paths),
       !.redeem_script =
           IF self.redeem_script = "" /\ output.redeem_script # ""
           THEN output.redeem_script ELSE @,
       !.witness_script =
           IF self.witness_script = "" /\ output.witness_script # ""
           THEN output.witness_script ELSE @,
       !.m_tap_internal_key =
           IF self.m_tap_internal_key = "" /\ output.m_tap_internal_key # ""
           THEN output.m_tap_internal_key ELSE @,
       !.m_tap_tree =
           IF self.m_tap_tree = <<>> /\ output.m_tap_tree # <<>>
           THEN output.m_tap_tree ELSE @]

\* A merge of the extended keys that keeps this PSKT's set for a key origin
\* both hold.
MergeXpubs_FirstWins(mine, theirs) == MapInsert(mine, theirs)

\* The loop over pskt.m_xpubs in Merge: a key origin not yet present takes the
\* other's set of extended keys, one already present takes the set union.
MergeXpubs(mine, theirs) ==
    {<<o, (IF o \in MapKeys(mine) THEN MapGet(mine, o) ELSE {})
          \cup (IF o \in MapKeys(theirs) THEN MapGet(theirs, o) ELSE {})>> :
        o \in MapKeys(mine) \cup MapKeys(theirs)}

\* A Merge that does not compare the two transactions.
Merge_NoTxidCheck(self, pskt) ==
    [ret |-> TRUE,
     pskt |-> [self EXCEPT
        !.inputs  = [i \in DOMAIN self.inputs |->
                       PSKTInput_Merge(self.inputs[i], pskt.inputs[i])],
        !.outputs = [i \in DOMAIN self.outputs |->
                       PSKTOutput_Merge(self.outputs[i], pskt.outputs[i])],
        !.m_xpubs = MergeXpubs(self.m_xpubs, pskt.m_xpubs),
        !.unknown = MapInsert(self.unknown, pskt.unknown)]]

\* PartiallySignedTransaction::Merge: [ret, pskt], the return value and this
\* PSKT after the call.
Merge(self, pskt) ==
    IF GetHash(self.tx) # GetHash(pskt.tx)
    THEN [ret |-> FALSE, pskt |-> self]
    ELSE [ret |-> TRUE,
          pskt |-> [self EXCEPT
             !.inputs  = [i \in DOMAIN self.inputs |->
                            PSKTInput_Merge(self.inputs[i], pskt.inputs[i])],
             !.outputs = [i \in DOMAIN self.outputs |->
                            PSKTOutput_Merge(self.outputs[i], pskt.outputs[i])],
             !.m_xpubs = MergeXpubs(self.m_xpubs, pskt.m_xpubs),
             !.unknown = MapInsert(self.unknown, pskt.unknown)]]

\* The loop of CombinePSKTs from the element at position k on, out being the
\* PSKT merged so far.
RECURSIVE CombineFrom(_, _, _)
CombineFrom(out, psktxs, k) ==
    IF k > Len(psktxs)
    THEN [err |-> "OK", out |-> out]
    ELSE LET m == Merge(out, psktxs[k])
         IN  IF ~m.ret
             THEN [err |-> "PSKT_MISMATCH", out |-> out]
             ELSE CombineFrom(m.pskt, psktxs, k + 1)

\* A CombinePSKTs whose loop stops one element early.
CombinePSKTs_SkipLast(psktxs) ==
    CombineFrom(psktxs[1], SubSeq(psktxs, 1, Len(psktxs) - 1), 2)

\* A CombinePSKTs that goes on after a failed Merge.
RECURSIVE CombineIgnoring(_, _, _)
CombineIgnoring(out, psktxs, k) ==
    IF k > Len(psktxs)
    THEN [err |-> "OK", out |-> out]
    ELSE CombineIgnoring(Merge(out, psktxs[k]).pskt, psktxs, k + 1)

CombinePSKTs_IgnoreMismatch(psktxs) == CombineIgnoring(psktxs[1], psktxs, 2)

\* CombinePSKTs: [err, out]; out starts as a copy of the first PSKT.
CombinePSKTs(psktxs) == CombineFrom(psktxs[1], psktxs, 2)

-----------------------------------------------------------------------------
(* Scripts, keys and signatures.  A script is named by a string; a stack     *)
(* item (a signature, a public key, a serialized script) is a tuple.         *)

\* Solver: the template of a script, its keys and, for a script hash, the
\* script it commits to.
Solver(script) ==
    CASE script = "pkh_k1" ->
            [type |-> "PUBKEYHASH", required |-> 1, keys |-> <<"k1">>, inner |-> ""]
      [] script = "wpkh_k2" ->
            [type |-> "WITNESS_V0_KEYHASH", required |-> 1, keys |-> <<"k2">>, inner |-> ""]
      [] script = "wsh_multi_2of2" ->
            [type |-> "WITNESS_V0_SCRIPTHASH", required |-> 0, keys |-> <<>>,
             inner |-> "multi_2of2"]
      [] script = "wsh_multi_1of2" ->
            [type |-> "WITNESS_V0_SCRIPTHASH", required |-> 0, keys |-> <<>>,
             inner |-> "multi_1of2"]
      [] script = "multi_2of2" ->
            [type |-> "MULTISIG", required |-> 2, keys |-> <<"k1", "k2">>, inner |-> ""]
      [] script = "multi_1of2" ->
            [type |-> "MULTISIG", required |-> 1, keys |-> <<"k1", "k2">>, inner |-> ""]
      [] OTHER ->
            [type |-> "NONSTANDARD", required |-> 0, keys |-> <<>>, inner |-> ""]

\* A stack item holding plain data (a public key, a serialized script, the
\* empty vector).
Data(d) == <<d>>

\* The key origin (fingerprint and derivation path) of a key.
OriginOf(key) == <<"origin", key>>

\* A signature by key over input `index` of `tx` with hash type `sighash`.
MakeSig(key, tx, index, sighash) ==
    <<"sig", key, [txid |-> GetHash(tx), n |-> index, hashtype |-> sighash]>>

\* The signature DUMMY_SIGNATURE_CREATOR makes.
DummySig == <<"sig", "dummy">>

\* A signing provider: the private keys, public keys, scripts and key origins
\* it knows.
DUMMY_SIGNING_PROVIDER == [keys |-> {}, pubkeys |-> {}, scripts |-> {}, origins |-> {}]

\* A signature creator: DUMMY_SIGNATURE_CREATOR, or a
\* MutableTransactionSignatureCreator over (tx, index, amount, sighash).
DUMMY_SIGNATURE_CREATOR ==
    [kind |-> "dummy", tx |-> <<>>, index |-> 0, amount |-> 0, sighash |-> 0]

MutableTransactionSignatureCreator(tx, index, amount, sighash) ==
    [kind |-> "real", tx |-> <<tx>>, index |-> index, amount |-> amount,
     sighash |-> sighash]

\* The creator's checker on a signature for a key: the dummy checker accepts
\* anything, the real one a signature by that key over this input of this
\* transaction.
CheckSig(creator, key, sig) ==
    \/ creator.kind = "dummy"
    \/ /\ Len(sig) = 3
       /\ sig[2] = key
       /\ sig[3].txid = GetHash(creator.tx[1])
       /\ sig[3].n = creator.index

\* SignatureData()
BlankSigData ==
    [complete |-> FALSE, witness |-> FALSE,
     scriptSig |-> <<>>, scriptWitness |-> <<>>,
     signatures |-> {}, redeem_script |-> "", witness_script |-> "",
     misc_pubkeys |-> {},
     taproot_key_path_sig |-> "", taproot_script_sigs |-> {},
     tr_internal_key |-> "", tr_merkle_root |-> "", tr_scripts |-> {},
     taproot_misc_pubkeys |-> {},
     tr_builder |-> <<>>,
     missing_pubkeys |-> <<>>, missing_sigs |-> <<>>,
     missing_redeem_script |-> "", missing_witness_script |-> ""]

\* CreateSig of the signing code: [ok, sig, sigdata].  A signature already in
\* sigdata is used; otherwise the key's origin is recorded when the provider
\* gives it, and the creator signs: the dummy creator always, the real one
\* when the provider holds the private key.
CreateSig(provider, creator, sigdata, key) ==
    IF key \in MapKeys(sigdata.signatures)
    THEN [ok |-> TRUE, sig |-> MapGet(sigdata.signatures, key), sigdata |-> sigdata]
    ELSE LET sd == IF key \in provider.origins
                   THEN [sigdata EXCEPT !.misc_pubkeys =
                            MapInsert(@, {<<key, OriginOf(key)>>})]
                   ELSE sigdata
             sig == IF creator.kind = "dummy" THEN DummySig
                    ELSE MakeSig(key, creator.tx[1], creator.index, creator.sighash)
         IN  IF creator.kind = "dummy" \/ key \in provider.keys
             THEN [ok |-> TRUE, sig |-> sig,
                   sigdata |-> [sd EXCEPT !.signatures = MapInsert(@, {<<key, sig>>})]]
             ELSE [ok |-> FALSE, sig |-> <<>>,
                   sigdata |-> [sd EXCEPT !.missing_sigs = Append(@, key)]]

\* GetPubKey of the signing code: the public key of a key hash is found in the
\* signatures, in misc_pubkeys or with the provider.
GetPubKey(provider, sigdata, key) ==
    \/ key \in MapKeys(sigdata.signatures)
    \/ key \in MapKeys(sigdata.misc_pubkeys)
    \/ key \in provider.pubkeys

\* GetCScript of the signing code: the script a hash commits to is found with
\* the provider or in sigdata's redeem or witness script.
GetCScript(provider, sigdata, script) ==
    \/ script \in provider.scripts
    \/ sigdata.redeem_script = script
    \/ sigdata.witness_script = script

\* The MULTISIG case of SignStep from key k on: CreateSig is called for every
\* key, the first `required` signatures go to the stack.
RECURSIVE SignMultisig(_, _, _, _, _, _)
SignMultisig(provider, creator, sol, k, sigdata, ret) ==
    IF k > Len(sol.keys)
    THEN [ok |-> Len(ret) = sol.required + 1,
          ret |-> ret \o [j \in 1..(sol.required + 1 - Len(ret)) |-> Data("")],
          sigdata |-> sigdata]
    ELSE LET c == CreateSig(provider, creator, sigdata, sol.keys[k])
         IN  SignMultisig(provider, creator, sol, k + 1, c.sigdata,
                          IF c.ok /\ Len(ret) < sol.required + 1
                          THEN Append(ret, c.sig) ELSE ret)

\* The signature-and-key case of SignStep (pay to public key hash, in a
\* scriptSig or in a witness).
SignKeyHash(provider, creator, sol, sigdata) ==
    LET key == sol.keys[1]
    IN  IF ~GetPubKey(provider, sigdata, key)
        THEN [ok |-> FALSE, ret |-> <<>>,
              sigdata |-> [sigdata EXCEPT !.missing_pubkeys = Append(@, key)]]
        ELSE LET c == CreateSig(provider, creator, sigdata, key)
             IN  [ok |-> c.ok,
                  ret |-> IF c.ok THEN <<c.sig, Data(key)>> ELSE <<>>,
                  sigdata |-> c.sigdata]

\* The signatures of a stack all pass the creator's checker for the keys of
\* the script (VerifyScript on a solved script).
VerifyStack(creator, sol, stack) ==
    \A j \in DOMAIN stack :
        (Len(stack[j]) > 1) =>
            \E k \in DOMAIN sol.keys : CheckSig(creator, sol.keys[k], stack[j])

\* ProduceSignature: sigdata after the call; the return value is its
\* `complete`.
ProduceSignature(provider, creator, fromPubKey, sigdata) ==
    IF sigdata.complete THEN sigdata
    ELSE
    LET sol == Solver(fromPubKey)
    IN  CASE sol.type = "PUBKEYHASH" ->
               LET s == SignKeyHash(provider, creator, sol, sigdata)
               IN  [s.sigdata EXCEPT
                      !.scriptWitness = <<>>,
                      !.scriptSig = s.ret,
                      !.complete = s.ok /\ VerifyStack(creator, sol, s.ret)]
          [] sol.type = "WITNESS_V0_KEYHASH" ->
               LET s == SignKeyHash(provider, creator, sol, sigdata)
               IN  [s.sigdata EXCEPT
                      !.scriptWitness = s.ret,
                      !.witness = TRUE,
                      !.scriptSig = <<>>,
                      !.complete = s.ok /\ VerifyStack(creator, sol, s.ret)]
          [] sol.type = "WITNESS_V0_SCRIPTHASH" ->
               IF ~GetCScript(provider, sigdata, sol.inner)
               THEN [sigdata EXCEPT !.missing_witness_script = sol.inner,
                                    !.scriptWitness = <<>>,
                                    !.scriptSig = <<>>,
                                    !.complete = FALSE]
               ELSE LET ws == Solver(sol.inner)
                        s  == SignMultisig(provider, creator, ws, 1,
                                 [sigdata EXCEPT !.witness_script = sol.inner],
                                 <<Data("")>>)
                        st == Append(s.ret, Data(sol.inner))
                    IN  [s.sigdata EXCEPT
                           !.scriptWitness = st,
                           !.witness = TRUE,
                           !.scriptSig = <<>>,
                           !.complete = s.ok /\ VerifyStack(creator, ws, s.ret)]
          [] OTHER ->
               [sigdata EXCEPT !.scriptWitness = <<>>, !.scriptSig = <<>>,
                               !.complete = FALSE]

-----------------------------------------------------------------------------
(* The signature pipeline of the PSKT engine *)

\* An AddInput that does not look for the input in the transaction.
AddInput_NoCheck(self, txin, psktin) ==
    [ret |-> TRUE,
     pskt |-> [self EXCEPT !.tx.vin = Append(@, txin),
                           !.inputs = Append(@, psktin)],
     psktin |-> psktin]

\* An AddInput that appends the input before it looks for it.
AddInput_AppendFirst(self, txin, psktin) ==
    [ret |-> ~\E i \in DOMAIN self.tx.vin : CTxInEq(self.tx.vin[i], txin),
     pskt |-> [self EXCEPT !.tx.vin = Append(@, txin),
                           !.inputs = Append(@, psktin)],
     psktin |-> psktin]

\* PartiallySignedTransaction::AddInput: [ret, pskt, psktin]; the caller's
\* record psktin loses its signatures when the input is added.
AddInput(self, txin, psktin) ==
    IF \E i \in DOMAIN self.tx.vin : CTxInEq(self.tx.vin[i], txin)
    THEN [ret |-> FALSE, pskt |-> self, psktin |-> psktin]
    ELSE LET cleared == [psktin EXCEPT !.partial_sigs = {},
                                       !.final_script_sig = <<>>,
                                       !.final_script_witness = <<>>]
         IN  [ret |-> TRUE,
              pskt |-> [self EXCEPT !.tx.vin = Append(@, txin),
                                    !.inputs = Append(@, cleared)],
              psktin |-> cleared]

\* An AddOutput that appends to the transaction only.
AddOutput_NoRecord(self, txout, psktout) ==
    [ret |-> TRUE, pskt |-> [self EXCEPT !.tx.vout = Append(@, txout)]]

\* PartiallySignedTransaction::AddOutput: [ret, pskt]
AddOutput(self, txout, psktout) ==
    [ret |-> TRUE,
     pskt |-> [self EXCEPT !.tx.vout = Append(@, txout),
                           !.outputs = Append(@, psktout)]]

\* A GetInputUTXO that does not compare the hash of non_witness_utxo.
GetInputUTXO_NoHashCheck(self, input_index) ==
    LET input == self.inputs[input_index]
        prevout == self.tx.vin[input_index].prevout
    IN  IF input.non_witness_utxo # <<>>
        THEN IF prevout.n >= Len(input.non_witness_utxo[1].vout)
             THEN [ret |-> FALSE, utxo |-> NullTxOut]
             ELSE [ret |-> TRUE, utxo |-> input.non_witness_utxo[1].vout[prevout.n + 1]]
        ELSE IF ~TxOutIsNull(input.witness_utxo)
        THEN [ret |-> TRUE, utxo |-> input.witness_utxo]
        ELSE [ret |-> FALSE, utxo |-> NullTxOut]

\* PartiallySignedTransaction::GetInputUTXO: [ret, utxo]
GetInputUTXO(self, input_index) ==
    LET input == self.inputs[input_index]
        prevout == self.tx.vin[input_index].prevout
    IN  IF input.non_witness_utxo # <<>>
        THEN IF prevout.n >= Len(input.non_witness_utxo[1].vout)
             THEN [ret |-> FALSE, utxo |-> NullTxOut]
             ELSE IF GetHash(input.non_witness_utxo[1]) # prevout.hash
             THEN [ret |-> FALSE, utxo |-> NullTxOut]
             ELSE [ret |-> TRUE, utxo |-> input.non_witness_utxo[1].vout[prevout.n + 1]]
        ELSE IF ~TxOutIsNull(input.witness_utxo)
        THEN [ret |-> TRUE, utxo |-> input.witness_utxo]
        ELSE [ret |-> FALSE, utxo |-> NullTxOut]

\* PSKTInput::FillSignatureData on a fresh SignatureData
PSKTInput_FillSignatureData(self) ==
    LET final == [BlankSigData EXCEPT
                    !.scriptSig = self.final_script_sig,
                    !.scriptWitness = self.final_script_witness,
                    !.complete = TRUE]
    IN  IF self.final_script_sig # <<>> \/ self.final_script_witness # <<>>
        THEN final
        ELSE [BlankSigData EXCEPT
                !.signatures = MapInsert(@, self.partial_sigs),
                !.redeem_script = self.redeem_script,
                !.witness_script = self.witness_script,
                !.misc_pubkeys = MapInsert(@, self.hd_keypaths),
                !.taproot_key_path_sig = self.m_tap_key_sig,
                !.taproot_script_sigs = MapInsert(@, self.m_tap_script_sigs),
                !.tr_internal_key = self.m_tap_internal_key,
                !.tr_merkle_root = self.m_tap_merkle_root,
                !.tr_scripts = MapInsert(@, self.m_tap_scripts),
                !.taproot_misc_pubkeys = MapInsert(@, self.m_tap_bip32_paths)]

\* A FromSignatureData that keeps the key paths of a completed input.
PSKTInput_FromSignatureData_KeepPaths(self, sigdata) ==
    IF sigdata.complete
    THEN [self EXCEPT
            !.partial_sigs = {},
            !.redeem_script = "",
            !.witness_script = "",
            !.final_script_sig =
                IF sigdata.scriptSig # <<>> THEN sigdata.scriptSig ELSE @,
            !.final_script_witness =
                IF sigdata.scriptWitness # <<>> THEN sigdata.scriptWitness ELSE @]
    ELSE [self EXCEPT !.partial_sigs = MapInsert(@, sigdata.signatures)]

\* PSKTInput::FromSignatureData
PSKTInput_FromSignatureData(self, sigdata) ==
    IF sigdata.complete
    THEN [self EXCEPT
            !.partial_sigs = {},
            !.hd_keypaths = {},
            !.redeem_script = "",
            !.witness_script = "",
            !.final_script_sig =
                IF sigdata.scriptSig # <<>> THEN sigdata.scriptSig ELSE @,
            !.final_script_witness =
                IF sigdata.scriptWitness # <<>> THEN sigdata.scriptWitness ELSE @]
    ELSE [self EXCEPT
            !.partial_sigs = MapInsert(@, sigdata.signatures),
            !.redeem_script =
                IF @ = "" /\ sigdata.redeem_script # "" THEN sigdata.redeem_script ELSE @,
            !.witness_script =
                IF @ = "" /\ sigdata.witness_script # "" THEN sigdata.witness_script ELSE @,
            !.hd_keypaths = MapInsert(@, sigdata.misc_pubkeys),
            !.m_tap_key_sig =
                IF sigdata.taproot_key_path_sig # "" THEN sigdata.taproot_key_path_sig ELSE @,
            !.m_tap_script_sigs = MapInsert(@, sigdata.taproot_script_sigs),
            !.m_tap_internal_key =
                IF sigdata.tr_internal_key # "" THEN sigdata.tr_internal_key ELSE @,
            !.m_tap_merkle_root =
                IF sigdata.tr_merkle_root # "" THEN sigdata.tr_merkle_root ELSE @,
            !.m_tap_scripts = MapInsert(@, sigdata.tr_scripts),
            !.m_tap_bip32_paths = MapInsert(@, sigdata.taproot_misc_pubkeys)]

\* PSKTOutput::FillSignatureData on a fresh SignatureData
PSKTOutput_FillSignatureData(self) ==
    [BlankSigData EXCEPT
       !.redeem_script = self.redeem_script,
       !.witness_script = self.witness_script,
       !.misc_pubkeys = MapInsert(@, self.hd_keypaths),
       !.tr_internal_key =
           IF self.m_tap_tree # <<>> /\ self.m_tap_internal_key # ""
           THEN self.m_tap_internal_key ELSE @,
       !.taproot_misc_pubkeys = MapInsert(@, self.m_tap_bip32_paths)]

\* PSKTOutput::FromSignatureData
PSKTOutput_FromSignatureData(self, sigdata) ==
    [self EXCEPT
       !.redeem_script =
           IF @ = "" /\ sigdata.redeem_script # "" THEN sigdata.redeem_script ELSE @,
       !.witness_script =
           IF @ = "" /\ sigdata.witness_script # "" THEN sigdata.witness_script ELSE @,
       !.hd_keypaths = MapInsert(@, sigdata.misc_pubkeys),
       !.m_tap_internal_key =
           IF sigdata.tr_internal_key # "" THEN sigdata.tr_internal_key ELSE @,
       !.m_tap_tree =
           IF sigdata.tr_builder # <<>> THEN sigdata.tr_builder[1] ELSE @,
       !.m_tap_bip32_paths = MapInsert(@, sigdata.taproot_misc_pubkeys)]

\* A PSKTInputSigned that takes no input for signed.
PSKTInputSigned_Never(input) == FALSE

\* PSKTInputSigned
PSKTInputSigned(input) ==
    input.final_script_sig # <<>> \/ input.final_script_witness # <<>>

\* PSKTInput::IsNull
PSKTInput_IsNull(self) ==
    /\ self.non_witness_utxo = <<>>
    /\ TxOutIsNull(self.witness_utxo)
    /\ self.partial_sigs = {}
    /\ self.unknown = {}
    /\ self.hd_keypaths = {}
    /\ self.redeem_script = ""
    /\ self.witness_script = ""

\* CountPSKTUnsignedInputs
CountPSKTUnsignedInputs(pskt) ==
    Cardinality({i \in DOMAIN pskt.inputs : ~PSKTInputSigned(pskt.inputs[i])})

\* UpdatePSKTOutput: the PSKT after the call
UpdatePSKTOutput(provider, pskt, index) ==
    LET out == pskt.tx.vout[index]
        creator == MutableTransactionSignatureCreator(pskt.tx, 1, out.nValue, 1)
        sigdata == ProduceSignature(provider, creator, out.scriptPubKey,
                      PSKTOutput_FillSignatureData(pskt.outputs[index]))
    IN  [pskt EXCEPT !.outputs[index] = PSKTOutput_FromSignatureData(@, sigdata)]

\* PrecomputePSKTData: the spent outputs when every input resolves its UTXO,
\* none otherwise.
PrecomputePSKTData(pskt) ==
    IF \A i \in DOMAIN pskt.tx.vin : GetInputUTXO(pskt, i).ret
    THEN [spent_outputs |-> [i \in DOMAIN pskt.tx.vin |-> GetInputUTXO(pskt, i).utxo],
          ready |-> TRUE]
    ELSE [spent_outputs |-> <<>>, ready |-> FALSE]

\* A SignPSKTInput that drops the non_witness_utxo when it puts the witness
\* UTXO.
SignPSKTInput_Write_ReplaceUtxo(pskt, index, utxo, sig_complete, sigdata) ==
    [ret |-> sig_complete,
     pskt |-> [pskt EXCEPT !.inputs[index] =
                  IF sigdata.witness
                  THEN [PSKTInput_FromSignatureData(pskt.inputs[index], sigdata)
                           EXCEPT !.witness_utxo = utxo, !.non_witness_utxo = <<>>]
                  ELSE PSKTInput_FromSignatureData(pskt.inputs[index], sigdata)],
     out_sigdata |-> BlankSigData]

\* The end of SignPSKTInput: sigdata is written to the input, the witness UTXO
\* is put when a witness signature was made, and the missing data reported.
SignPSKTInput_Write(pskt, index, utxo, sig_complete, sigdata) ==
    [ret |-> sig_complete,
     pskt |-> [pskt EXCEPT !.inputs[index] =
                  IF sigdata.witness
                  THEN [PSKTInput_FromSignatureData(pskt.inputs[index], sigdata)
                           EXCEPT !.witness_utxo = utxo]
                  ELSE PSKTInput_FromSignatureData(pskt.inputs[index], sigdata)],
     out_sigdata |-> [BlankSigData EXCEPT
         !.missing_pubkeys = sigdata.missing_pubkeys,
         !.missing_sigs = sigdata.missing_sigs,
         !.missing_redeem_script = sigdata.missing_redeem_script,
         !.missing_witness_script = sigdata.missing_witness_script]]

\* A SignPSKTInput that does not look for a required witness signature.
SignPSKTInput_Produced_Unchecked(pskt, index, utxo, require_witness_sig, finalize, produced) ==
    SignPSKTInput_Write(pskt, index, utxo, produced.complete,
        IF ~finalize /\ produced.complete
        THEN [produced EXCEPT !.complete = FALSE] ELSE produced)

\* A SignPSKTInput that writes complete signature data back whatever the
\* finalize flag.
SignPSKTInput_Produced_AlwaysFinal(pskt, index, utxo, require_witness_sig, finalize, produced) ==
    IF require_witness_sig /\ ~produced.witness
    THEN [ret |-> FALSE, pskt |-> pskt, out_sigdata |-> BlankSigData]
    ELSE SignPSKTInput_Write(pskt, index, utxo, produced.complete, produced)

\* SignPSKTInput after ProduceSignature has left `produced`: a required
\* witness signature is looked for, and `complete` is unset when not
\* finalizing.
SignPSKTInput_Produced(pskt, index, utxo, require_witness_sig, finalize, produced) ==
    IF require_witness_sig /\ ~produced.witness
    THEN [ret |-> FALSE, pskt |-> pskt, out_sigdata |-> BlankSigData]
    ELSE SignPSKTInput_Write(pskt, index, utxo, produced.complete,
             IF ~finalize /\ produced.complete
             THEN [produced EXCEPT !.complete = FALSE] ELSE produced)

\* SignPSKTInput: [ret, pskt, out_sigdata]; txdata is <<>> for a null pointer
\* and <<data>> otherwise, index counts from 1.
SignPSKTInput(provider, pskt, index, txdata, sighash, finalize) ==
    LET input == pskt.inputs[index]
        prevout == pskt.tx.vin[index].prevout
        from_non_witness == input.non_witness_utxo # <<>>
        utxo == IF from_non_witness
                THEN input.non_witness_utxo[1].vout[prevout.n + 1]
                ELSE input.witness_utxo
        creator == IF txdata = <<>>
                   THEN DUMMY_SIGNATURE_CREATOR
                   ELSE MutableTransactionSignatureCreator(pskt.tx, index,
                                                           utxo.nValue, sighash)
        failed == [ret |-> FALSE, pskt |-> pskt, out_sigdata |-> BlankSigData]
    IN  IF PSKTInputSigned(input)
        THEN [ret |-> TRUE, pskt |-> pskt, out_sigdata |-> BlankSigData]
        ELSE IF from_non_witness /\ prevout.n >= Len(input.non_witness_utxo[1].vout)
        THEN failed
        ELSE IF from_non_witness /\ GetHash(input.non_witness_utxo[1]) # prevout.hash
        THEN failed
        ELSE IF ~from_non_witness /\ TxOutIsNull(input.witness_utxo)
        THEN failed
        ELSE SignPSKTInput_Produced(pskt, index, utxo, ~from_non_witness, finalize,
                 ProduceSignature(provider, creator, utxo.scriptPubKey,
                     [PSKTInput_FillSignatureData(input) EXCEPT !.witness = FALSE]))

SIGHASH_ALL == 1

\* The loop of FinalizePSKT from input i on.
RECURSIVE FinalizeFrom(_, _, _, _)
FinalizeFrom(psktx, txdata, i, complete) ==
    IF i > Len(psktx.tx.vin)
    THEN [ret |-> complete, pskt |-> psktx]
    ELSE LET s == SignPSKTInput(DUMMY_SIGNING_PROVIDER, psktx, i, <<txdata>>,
                                SIGHASH_ALL, TRUE)
         IN  FinalizeFrom(s.pskt, txdata, i + 1, complete /\ s.ret)

\* The loop of a FinalizePSKT that reports success when some input completes.
RECURSIVE FinalizeFromAny(_, _, _, _)
FinalizeFromAny(psktx, txdata, i, complete) ==
    IF i > Len(psktx.tx.vin)
    THEN [ret |-> complete, pskt |-> psktx]
    ELSE LET s == SignPSKTInput(DUMMY_SIGNING_PROVIDER, psktx, i, <<txdata>>,
                                SIGHASH_ALL, TRUE)
         IN  FinalizeFromAny(s.pskt, txdata, i + 1,
                             IF i = 1 THEN s.ret ELSE complete \/ s.ret)

FinalizePSKT_Any(psktx) == FinalizeFromAny(psktx, PrecomputePSKTData(psktx), 1, TRUE)

\* FinalizePSKT: [ret, pskt]
FinalizePSKT(psktx) == FinalizeFrom(psktx, PrecomputePSKTData(psktx), 1, TRUE)

\* A FinalizeAndExtractPSKT that leaves the witnesses out of the result.
FinalizeAndExtractPSKT_NoWitness(psktx, result) ==
    LET f == FinalizePSKT(psktx)
    IN  IF ~f.ret
        THEN [ret |-> FALSE, pskt |-> f.pskt, result |-> result]
        ELSE [ret |-> TRUE, pskt |-> f.pskt,
              result |-> [f.pskt.tx EXCEPT !.vin = [i \in DOMAIN f.pskt.tx.vin |->
                  [f.pskt.tx.vin[i] EXCEPT
                     !.scriptSig = f.pskt.inputs[i].final_script_sig]]]]

\* FinalizeAndExtractPSKT after FinalizePSKT has returned f: the transaction
\* with the final scripts of every input.
FinalizeAndExtractPSKT_Finalized(f, result) ==
    IF ~f.ret
    THEN [ret |-> FALSE, pskt |-> f.pskt, result |-> result]
    ELSE [ret |-> TRUE, pskt |-> f.pskt,
          result |-> [f.pskt.tx EXCEPT !.vin = [i \in DOMAIN f.pskt.tx.vin |->
              [f.pskt.tx.vin[i] EXCEPT
                 !.scriptSig = f.pskt.inputs[i].final_script_sig,
                 !.scriptWitness = f.pskt.inputs[i].final_script_witness]]]]

\* FinalizeAndExtractPSKT: [ret, pskt, result]
FinalizeAndExtractPSKT(psktx, result) ==
    FinalizeAndExtractPSKT_Finalized(FinalizePSKT(psktx), result)

-----------------------------------------------------------------------------
(* The analyzer *)

\* PSKTRole, in the order of the enumeration.
CREATOR == 0
UPDATER == 1
SIGNER == 2
FINALIZER == 3
EXTRACTOR == 4

\* The consensus bound on an amount, scaled down to the coins of the model.
MAX_MONEY == 20

MoneyRange(nValue) == nValue >= 0 /\ nValue <= MAX_MONEY

\* CScript::IsUnspendable: a script that starts with OP_RETURN.
IsUnspendable(script) == script = "op_return"

\* A PSKTInputAnalysis as resize() makes it.
BlankInputAnalysis ==
    [has_utxo |-> FALSE, is_final |-> FALSE, next |-> CREATOR,
     missing_pubkeys |-> <<>>, missing_sigs |-> <<>>,
     missing_redeem_script |-> "", missing_witness_script |-> ""]

\* PSKTAnalysis(): the optionals are sequences of length at most one, an
\* error message is the pair of its format and its input number, and
\* `aborted` tells that the assertion on the next role failed.
BlankAnalysis ==
    [estimated_vsize |-> <<>>, estimated_feerate |-> <<>>, fee |-> <<>>,
     inputs |-> <<>>, next |-> CREATOR, error |-> <<>>, aborted |-> FALSE]

\* A SetInvalid that leaves the input entries and the fee in place.
SetInvalid_KeepInputs(self, err_msg) ==
    [self EXCEPT !.estimated_vsize = <<>>,
                 !.estimated_feerate = <<>>,
                 !.next = CREATOR,
                 !.error = err_msg]

\* PSKTAnalysis::SetInvalid
SetInvalid(self, err_msg) ==
    [self EXCEPT !.estimated_vsize = <<>>,
                 !.estimated_feerate = <<>>,
                 !.fee = <<>>,
                 !.inputs = <<>>,
                 !.next = CREATOR,
                 !.error = err_msg]

\* A classification that takes a complete input for the signer's and an
\* input that misses signatures for the finalizer's.
AnalyzeInput_Missing_Swapped(s, input_analysis) ==
    [pskt |-> s.pskt,
     analysis |->
        IF ~s.ret
        THEN [input_analysis EXCEPT
                !.is_final = FALSE,
                !.missing_pubkeys = s.out_sigdata.missing_pubkeys,
                !.missing_redeem_script = s.out_sigdata.missing_redeem_script,
                !.missing_witness_script = s.out_sigdata.missing_witness_script,
                !.missing_sigs = s.out_sigdata.missing_sigs,
                !.next = IF /\ s.out_sigdata.missing_pubkeys = <<>>
                            /\ s.out_sigdata.missing_redeem_script = ""
                            /\ s.out_sigdata.missing_witness_script = ""
                            /\ s.out_sigdata.missing_sigs # <<>>
                         THEN FINALIZER ELSE UPDATER]
        ELSE [input_analysis EXCEPT !.is_final = FALSE, !.next = SIGNER]]

\* AnalyzePSKT on an input that is not final, after SignPSKTInput with the
\* dummy provider has returned s: what is missing decides the next role.
AnalyzeInput_Missing(s, input_analysis) ==
    [pskt |-> s.pskt,
     analysis |->
        IF ~s.ret
        THEN [input_analysis EXCEPT
                !.is_final = FALSE,
                !.missing_pubkeys = s.out_sigdata.missing_pubkeys,
                !.missing_redeem_script = s.out_sigdata.missing_redeem_script,
                !.missing_witness_script = s.out_sigdata.missing_witness_script,
                !.missing_sigs = s.out_sigdata.missing_sigs,
                !.next = IF /\ s.out_sigdata.missing_pubkeys = <<>>
                            /\ s.out_sigdata.missing_redeem_script = ""
                            /\ s.out_sigdata.missing_witness_script = ""
                            /\ s.out_sigdata.missing_sigs # <<>>
                         THEN SIGNER ELSE UPDATER]
        ELSE [input_analysis EXCEPT !.is_final = FALSE, !.next = FINALIZER]]

\* A classification that sends a finalized input back to the updater.
AnalyzeInput_Final_SignedToUpdater(psktx, txdata, i, utxo, input_analysis) ==
    IF ~TxOutIsNull(utxo) /\ ~PSKTInputSigned(psktx.inputs[i])
    THEN AnalyzeInput_Missing(
             SignPSKTInput(DUMMY_SIGNING_PROVIDER, psktx, i, <<txdata>>, 1, TRUE),
             input_analysis)
    ELSE [pskt |-> psktx,
          analysis |-> [input_analysis EXCEPT !.is_final = TRUE, !.next = UPDATER]]

\* AnalyzePSKT on input i once its UTXO is looked up: [pskt, analysis]
AnalyzeInput_Final(psktx, txdata, i, utxo, input_analysis) ==
    IF ~TxOutIsNull(utxo) /\ ~PSKTInputSigned(psktx.inputs[i])
    THEN AnalyzeInput_Missing(
             SignPSKTInput(DUMMY_SIGNING_PROVIDER, psktx, i, <<txdata>>, 1, TRUE),
             input_analysis)
    ELSE IF ~TxOutIsNull(utxo)
    THEN [pskt |-> psktx, analysis |-> [input_analysis EXCEPT !.is_final = TRUE]]
    ELSE [pskt |-> psktx, analysis |-> input_analysis]

\* The first loop of AnalyzePSKT from input i on:
\* [result, psktx, in_amt, calc_fee]; result.error is set when it returned.
RECURSIVE AnalyzeFrom(_, _, _, _, _, _)
RECURSIVE AnalyzeFrom_Utxo(_, _, _, _, _, _, _, _)
RECURSIVE AnalyzeFrom_Utxo_Spendable(_, _, _, _, _, _, _, _)
RECURSIVE AnalyzeFrom_Next(_, _, _, _, _, _)
AnalyzeFrom(result, psktx, txdata, i, in_amt, calc_fee) ==
    IF i > Len(psktx.tx.vin)
    THEN [result |-> result, psktx |-> psktx, in_amt |-> in_amt,
          calc_fee |-> calc_fee]
    ELSE LET input == psktx.inputs[i]
             g == GetInputUTXO(psktx, i)
             invalid(msg) == [result |-> SetInvalid(result, <<msg, i - 1>>),
                              psktx |-> psktx, in_amt |-> in_amt,
                              calc_fee |-> calc_fee]
         IN  IF g.ret
             THEN IF ~MoneyRange(g.utxo.nValue) \/ ~MoneyRange(in_amt + g.utxo.nValue)
                  THEN invalid("PSKT is not valid. Input %u has invalid value")
                  ELSE AnalyzeFrom_Utxo(result, psktx, txdata, i,
                           in_amt + g.utxo.nValue, calc_fee, g.utxo,
                           [BlankInputAnalysis EXCEPT !.next = EXTRACTOR,
                                                      !.has_utxo = TRUE])
             ELSE IF /\ input.non_witness_utxo # <<>>
                     /\ psktx.tx.vin[i].prevout.n >= Len(input.non_witness_utxo[1].vout)
                  THEN invalid("PSKT is not valid. Input %u specifies invalid prevout")
                  ELSE AnalyzeFrom_Utxo(result, psktx, txdata, i, in_amt, FALSE,
                           g.utxo,
                           [BlankInputAnalysis EXCEPT !.has_utxo = FALSE,
                                                      !.is_final = FALSE,
                                                      !.next = UPDATER])

AnalyzeFrom_Utxo_Spendable(result, psktx, txdata, i, in_amt, calc_fee, utxo, input_analysis) ==
    AnalyzeFrom_Next(result,
        AnalyzeInput_Final(psktx, txdata, i, utxo, input_analysis),
        txdata, i, in_amt, calc_fee)

AnalyzeFrom_Utxo(result, psktx, txdata, i, in_amt, calc_fee, utxo, input_analysis) ==
    IF ~TxOutIsNull(utxo) /\ IsUnspendable(utxo.scriptPubKey)
    THEN [result |-> SetInvalid(result,
                        <<"PSKT is not valid. Input %u spends unspendable output", i - 1>>),
          psktx |-> psktx, in_amt |-> in_amt, calc_fee |-> calc_fee]
    ELSE AnalyzeFrom_Next(result,
             AnalyzeInput_Final(psktx, txdata, i, utxo, input_analysis),
             txdata, i, in_amt, calc_fee)

AnalyzeFrom_Next(result, c, txdata, i, in_amt, calc_fee) ==
    AnalyzeFrom([result EXCEPT !.inputs[i] = c.analysis], c.pskt, txdata, i + 1,
                in_amt, calc_fee)

\* A PSKT-wide next role that is the last input's.
MinRoleFrom_Last(inputs, i, next) ==
    IF inputs = <<>> THEN next ELSE inputs[Len(inputs)].next

\* The PSKT-wide next role: the least of the inputs' next roles, from
\* EXTRACTOR down.
RECURSIVE MinRoleFrom(_, _, _)
MinRoleFrom(inputs, i, next) ==
    IF i > Len(inputs) THEN next
    ELSE MinRoleFrom(inputs, i + 1,
                     IF inputs[i].next < next THEN inputs[i].next ELSE next)

\* A sum of the output amounts that leaves the first output out.
OutAmountFrom_SkipFirst(vout, k, a) ==
    IF Len(vout) <= 1 THEN 0 ELSE vout[Len(vout)].nValue

\* The sum of the output amounts as std::accumulate computes it, -1 once an
\* amount or a partial sum leaves the money range.
RECURSIVE OutAmountFrom(_, _, _)
OutAmountFrom(vout, k, a) ==
    IF k > Len(vout) THEN a
    ELSE OutAmountFrom(vout, k + 1,
             IF ~MoneyRange(a) \/ ~MoneyRange(vout[k].nValue)
                \/ ~MoneyRange(a + vout[k].nValue)
             THEN -1 ELSE a + vout[k].nValue)

\* The loop that prepares the size estimate from input i on: [success, mtx]
RECURSIVE EstimateFrom(_, _, _)
RECURSIVE EstimateFrom_Signed(_, _, _)
EstimateFrom(psktx, mtx, i) ==
    IF i > Len(psktx.tx.vin)
    THEN [success |-> TRUE, mtx |-> mtx]
    ELSE EstimateFrom_Signed(
             SignPSKTInput(DUMMY_SIGNING_PROVIDER, psktx, i, <<>>, 1, TRUE), mtx, i)

EstimateFrom_Signed(s, mtx, i) ==
    IF ~s.ret \/ ~GetInputUTXO(s.pskt, i).ret
    THEN [success |-> FALSE, mtx |-> mtx]
    ELSE EstimateFrom(s.pskt,
             [mtx EXCEPT !.vin[i].scriptSig = s.pskt.inputs[i].final_script_sig,
                         !.vin[i].scriptWitness = s.pskt.inputs[i].final_script_witness],
             i + 1)

\* GetVirtualTransactionSize, counted in the items of the transaction: the
\* inputs and the outputs weigh four each, the items of a scriptSig four and
\* those of a witness one, and the weight is divided by four, rounded up.
RECURSIVE StackItemsFrom(_, _)
StackItemsFrom(vin, i) ==
    IF i > Len(vin) THEN 0
    ELSE 4 * Len(vin[i].scriptSig) + Len(vin[i].scriptWitness)
         + StackItemsFrom(vin, i + 1)

GetVirtualTransactionSize(mtx) ==
    (4 * (1 + Len(mtx.vin) + Len(mtx.vout)) + StackItemsFrom(mtx.vin, 1) + 3) \div 4

\* CFeeRate(fee, size): the fee per 1000 size units, rounded towards zero.
CFeeRate(fee, size) ==
    IF size = 0 THEN 0
    ELSE IF fee >= 0 THEN (fee * 1000) \div size
    ELSE -((-fee * 1000) \div size)

\* The estimates of AnalyzePSKT once the fee is known.
AnalyzeEstimate(result, e, fee) ==
    IF e.success
    THEN [result EXCEPT
            !.estimated_vsize = <<GetVirtualTransactionSize(e.mtx)>>,
            !.estimated_feerate = <<CFeeRate(fee, GetVirtualTransactionSize(e.mtx))>>]
    ELSE result

\* The fee calculation of AnalyzePSKT.
AnalyzeFee(result, psktx, in_amt, out_amt) ==
    IF ~MoneyRange(out_amt)
    THEN SetInvalid(result, <<"PSKT is not valid. Output amount invalid">>)
    ELSE AnalyzeEstimate([result EXCEPT !.fee = <<in_amt - out_amt>>],
                         EstimateFrom(psktx, psktx.tx, 1), in_amt - out_amt)

\* An AnalyzePSKT that calculates the fee whether the UTXOs are there or not.
AnalyzePSKT_Roles_AlwaysFee(r) ==
    IF r.result.error # <<>>
    THEN r.result
    ELSE AnalyzeFee([r.result EXCEPT
                        !.next = MinRoleFrom(r.result.inputs, 1, EXTRACTOR)],
                    r.psktx, r.in_amt, OutAmountFrom(r.psktx.tx.vout, 1, 0))

\* AnalyzePSKT after its first loop has left r.
AnalyzePSKT_Roles(r) ==
    IF r.result.error # <<>>
    THEN r.result
    ELSE IF ~(MinRoleFrom(r.result.inputs, 1, EXTRACTOR) > CREATOR)
    THEN [r.result EXCEPT !.next = MinRoleFrom(r.result.inputs, 1, EXTRACTOR),
                          !.aborted = TRUE]
    ELSE IF r.calc_fee
    THEN AnalyzeFee([r.result EXCEPT
                        !.next = MinRoleFrom(r.result.inputs, 1, EXTRACTOR)],
                    r.psktx, r.in_amt, OutAmountFrom(r.psktx.tx.vout, 1, 0))
    ELSE [r.result EXCEPT !.next = MinRoleFrom(r.result.inputs, 1, EXTRACTOR)]

\* node::AnalyzePSKT: the PSKTAnalysis of a PSKT passed by value.
AnalyzePSKT(psktx) ==
    AnalyzePSKT_Roles(
        AnalyzeFrom([BlankAnalysis EXCEPT
                        !.inputs = [i \in DOMAIN psktx.tx.vin |-> BlankInputAnalysis]],
                    psktx, PrecomputePSKTData(psktx), 1, 0, TRUE))

-----------------------------------------------------------------------------
(* The transaction description of the PSKT dialog *)

\* What a read of the value of an optional amount that holds none may give.
IndeterminateAmounts == {0, 7}

\* The fee line of PSKTOperationsDialog::renderTransaction for an analysis:
\* the test is !*analysis.fee, on the amount and not on its presence.
renderTransaction_Fee(analysis, indeterminate) ==
    LET fee == IF analysis.fee # <<>> THEN analysis.fee[1] ELSE indeterminate
    IN  IF fee = 0
        THEN <<"Unable to calculate transaction fee or total transaction amount.">>
        ELSE <<"Pays transaction fee: ", fee>>

-----------------------------------------------------------------------------
(* The RPCs that make a PSKT *)

\* CMutableTransaction()
EmptyTx == [nVersion |-> 2, vin |-> <<>>, vout |-> <<>>, nLockTime |-> 0]

\* The blank PSKT createpskt and converttopskt build over a transaction.
BlankPskt(tx) ==
    [tx            |-> tx,
     inputs        |-> [i \in 1..Len(tx.vin) |-> BlankInput],
     outputs       |-> [i \in 1..Len(tx.vout) |-> BlankOutput],
     m_xpubs       |-> {},
     m_version     |-> <<>>,
     m_proprietary |-> {},
     unknown       |-> {}]

\* createpskt, rawTx being the transaction ConstructTransaction returns.
createpskt(rawTx) == [error |-> "", result |-> <<BlankPskt(rawTx)>>]

\* A converttopskt that leaves the scriptSigs and witnesses in the inputs.
converttopskt_KeepSigData(tx, permitsigdata) ==
    IF \E i \in DOMAIN tx.vin :
          (tx.vin[i].scriptSig # <<>> \/ tx.vin[i].scriptWitness # <<>>) /\ ~permitsigdata
    THEN [error |-> "RPC_DESERIALIZATION_ERROR", result |-> <<>>]
    ELSE [error |-> "", result |-> <<BlankPskt(tx)>>]

\* converttopskt on a decoded transaction.
converttopskt(tx, permitsigdata) ==
    IF \E i \in DOMAIN tx.vin :
          (tx.vin[i].scriptSig # <<>> \/ tx.vin[i].scriptWitness # <<>>) /\ ~permitsigdata
    THEN [error |-> "RPC_DESERIALIZATION_ERROR", result |-> <<>>]
    ELSE [error |-> "",
          result |-> <<BlankPskt([tx EXCEPT !.vin = [i \in DOMAIN tx.vin |->
                          [tx.vin[i] EXCEPT !.scriptSig = <<>>,
                                            !.scriptWitness = <<>>]]])>>]

\* A loop over the inputs that goes on when AddInput refuses an input.
RECURSIVE JoinInputs_IgnoreRefusal(_, _, _)
JoinInputs_IgnoreRefusal(merged_pskt, pskt, i) ==
    IF i > Len(pskt.tx.vin)
    THEN [ok |-> TRUE, pskt |-> merged_pskt, at |-> <<>>]
    ELSE JoinInputs_IgnoreRefusal(
             AddInput(merged_pskt, pskt.tx.vin[i], pskt.inputs[i]).pskt, pskt, i + 1)

\* The loop of joinpskts over the inputs of one PSKT, from input i on:
\* [ok, pskt, at], not ok when AddInput refuses an input, at being the
\* outpoint of the refused input.
RECURSIVE JoinInputs(_, _, _)
JoinInputs(merged_pskt, pskt, i) ==
    IF i > Len(pskt.tx.vin)
    THEN [ok |-> TRUE, pskt |-> merged_pskt, at |-> <<>>]
    ELSE LET added == AddInput(merged_pskt, pskt.tx.vin[i], pskt.inputs[i])
         IN  IF ~added.ret
             THEN [ok |-> FALSE, pskt |-> merged_pskt,
                   at |-> <<pskt.tx.vin[i].prevout>>]
             ELSE JoinInputs(added.pskt, pskt, i + 1)

\* The loop of joinpskts over the outputs of one PSKT, from output i on.
RECURSIVE JoinOutputs(_, _, _)
JoinOutputs(merged_pskt, pskt, i) ==
    IF i > Len(pskt.tx.vout)
    THEN merged_pskt
    ELSE JoinOutputs(AddOutput(merged_pskt, pskt.tx.vout[i], pskt.outputs[i]).pskt,
                     pskt, i + 1)

\* The loop of joinpskts over the PSKTs, from the k-th on: [ok, pskt, at].
RECURSIVE JoinAll(_, _, _)
JoinAll(merged_pskt, psktxs, k) ==
    IF k > Len(psktxs)
    THEN [ok |-> TRUE, pskt |-> merged_pskt, at |-> <<>>]
    ELSE LET ins == JoinInputs(merged_pskt, psktxs[k], 1)
         IN  IF ~ins.ok
             THEN ins
             ELSE JoinAll([JoinOutputs(ins.pskt, psktxs[k], 1) EXCEPT
                              !.m_xpubs = MergeXpubs(@, psktxs[k].m_xpubs),
                              !.unknown = MapInsert(@, psktxs[k].unknown)],
                          psktxs, k + 1)

\* The inputs of merged_pskt added to shuffled_pskt in the order of
\* input_indices, from position k on; the return value of AddInput is ignored.
RECURSIVE ShuffleInputs(_, _, _, _)
ShuffleInputs(shuffled_pskt, merged_pskt, input_indices, k) ==
    IF k > Len(input_indices)
    THEN shuffled_pskt
    ELSE ShuffleInputs(
            AddInput(shuffled_pskt, merged_pskt.tx.vin[input_indices[k]],
                     merged_pskt.inputs[input_indices[k]]).pskt,
            merged_pskt, input_indices, k + 1)

\* A shuffle that gives the k-th output added the record at position k of
\* merged_pskt.
RECURSIVE ShuffleOutputs_Unpaired(_, _, _, _)
ShuffleOutputs_Unpaired(shuffled_pskt, merged_pskt, output_indices, k) ==
    IF k > Len(output_indices)
    THEN shuffled_pskt
    ELSE ShuffleOutputs_Unpaired(
            AddOutput(shuffled_pskt, merged_pskt.tx.vout[output_indices[k]],
                      merged_pskt.outputs[k]).pskt,
            merged_pskt, output_indices, k + 1)

RECURSIVE ShuffleOutputs(_, _, _, _)
ShuffleOutputs(shuffled_pskt, merged_pskt, output_indices, k) ==
    IF k > Len(output_indices)
    THEN shuffled_pskt
    ELSE ShuffleOutputs(
            AddOutput(shuffled_pskt, merged_pskt.tx.vout[output_indices[k]],
                      merged_pskt.outputs[output_indices[k]]).pskt,
            merged_pskt, output_indices, k + 1)

\* The largest lock time (0xffffffff in the code, lock times being modelled on
\* 0 .. 2^31 - 1), the start of the search for the lowest one.
MaxLockTime == 2147483647

Max(S) == CHOOSE x \in S : \A y \in S : y <= x
Min(S) == CHOOSE x \in S : \A y \in S : x <= y

\* The orders Shuffle can leave n indices in.
ShuffleOrders(n) ==
    {p \in [1..n -> 1..n] : \A i \in 1..n : \A j \in 1..n : p[i] = p[j] => i = j}

\* a < b for two uint32_t values, each held as the int32_t with the same
\* bits: a negative number stands for a value of 2^31 or more.
U32Less(a, b) == IF (a < 0) = (b < 0) THEN a < b ELSE b < 0

\* A choice of version that compares the versions as signed numbers.
BestVersionFrom_Signed(psktxs, k, best_version) ==
    Max({best_version} \cup {psktxs[j].tx.nVersion : j \in k..Len(psktxs)})

\* The version joinpskts chooses, from the k-th PSKT on: the highest of
\* best_version and static_cast<uint32_t>(nVersion), cast back to int32_t.
RECURSIVE BestVersionFrom(_, _, _)
BestVersionFrom(psktxs, k, best_version) ==
    IF k > Len(psktxs) THEN best_version
    ELSE BestVersionFrom(psktxs, k + 1,
             IF U32Less(best_version, psktxs[k].tx.nVersion)
             THEN psktxs[k].tx.nVersion ELSE best_version)

\* The blank PSKT of joinpskts with every PSKT added to it: [ok, pskt, at].
JoinMerged(psktxs) ==
    JoinAll(BlankPskt([EmptyTx EXCEPT
                !.nVersion = BestVersionFrom(psktxs, 1, 1),
                !.nLockTime = Min({MaxLockTime} \cup
                                  {psktxs[k].tx.nLockTime : k \in DOMAIN psktxs})]),
            psktxs, 1)

\* joinpskts once the PSKTs are added to merged_pskt: the inputs and outputs
\* go to a blank PSKT in the shuffled orders.
joinpskts_Shuffle(merged_pskt, input_indices, output_indices) ==
    [ShuffleOutputs(
         ShuffleInputs(BlankPskt([EmptyTx EXCEPT
                                     !.nVersion = merged_pskt.tx.nVersion,
                                     !.nLockTime = merged_pskt.tx.nLockTime]),
                       merged_pskt, input_indices, 1),
         merged_pskt, output_indices, 1)
     EXCEPT !.unknown = MapInsert(@, merged_pskt.unknown)]

\* joinpskts after the loop over the PSKTs has left `joined`.
joinpskts_Joined(joined, input_indices, output_indices) ==
    IF ~joined.ok
    THEN [error |-> <<"Input %s:%d exists in multiple PSKTs",
                      joined.at[1].hash, joined.at[1].n>>,
          result |-> <<>>]
    ELSE [error |-> <<>>,
          result |-> <<joinpskts_Shuffle(joined.pskt, input_indices,
                                         output_indices)>>]

\* joinpskts on decoded PSKTs, input_indices and output_indices being the
\* shuffled index lists: [error, result].
joinpskts(psktxs, input_indices, output_indices) ==
    IF Len(psktxs) <= 1
    THEN [error |-> <<"At least two PSKTs are required to join PSKTs.">>,
          result |-> <<>>]
    ELSE joinpskts_Joined(JoinMerged(psktxs), input_indices, output_indices)

-----------------------------------------------------------------------------
(* The transactions and coins of the model *)

Coin(v, spk) == [nValue |-> v, scriptPubKey |-> spk]

\* Two earlier transactions whose outputs are spent.
PrevTx1 == MakeTx(<<>>, <<Coin(5, "wsh_multi_2of2"), Coin(3, "pkh_k1")>>, 0)
PrevTx2 == MakeTx(<<>>, <<Coin(4, "wsh_multi_1of2"), Coin(2, "wpkh_k2")>>, 0)

\* Two unsigned transactions of the same shape and different txids.
TxA == MakeTx(<<MakeTxIn(GetHash(PrevTx1), 0), MakeTxIn(GetHash(PrevTx1), 1)>>,
              <<Coin(7, "dest")>>, 0)
TxB == MakeTx(<<MakeTxIn(GetHash(PrevTx1), 0), MakeTxIn(GetHash(PrevTx1), 1)>>,
              <<Coin(7, "dest")>>, 1)

-----------------------------------------------------------------------------
(* Operands of the merge algebra: PSKTs as a decoder can deliver them.  An   *)
(* operand is the blank PSKT over its transaction with one attribute (a      *)
(* cell: one field of one input, of one output or of the global section)     *)
(* set to any value of that field's domain; the operands of one run populate *)
(* the same cell, each with its own value, so that they agree, differ or     *)
(* leave it empty in every combination.                                      *)

StringMaps == {{}, {<<"k1", "v1">>}, {<<"k1", "v2">>}, {<<"k2", "v1">>}}
Strings == {"", "v1", "v2"}
Stacks == {<<>>, <<"v1">>, <<"v2">>}
Proprietaries ==
    {{}, {[identifier |-> "id", subtype |-> 0, key |-> "k1", value |-> "v1"]},
         {[identifier |-> "id", subtype |-> 0, key |-> "k2", value |-> "v2"]}}

InputFields == DOMAIN BlankInput
OutputFields == DOMAIN BlankOutput
GlobalFields == {"m_xpubs", "m_version", "m_proprietary", "unknown"}

InputFieldValues(f) ==
    CASE f = "non_witness_utxo" -> {<<>>, <<PrevTx1>>, <<PrevTx2>>}
      [] f = "witness_utxo" ->
            {NullTxOut, Coin(5, "v1"), Coin(5, "v2"), Coin(-1, "v1")}
      [] f = "sighash_type" -> {<<>>, <<1>>, <<2>>}
      [] f \in {"redeem_script", "witness_script", "m_tap_key_sig",
                "m_tap_internal_key", "m_tap_merkle_root"} -> Strings
      [] f \in {"final_script_sig", "final_script_witness"} -> Stacks
      [] f = "m_tap_script_sigs" ->
            {{}, {<<(<<"k1", "h1">>), "v1">>}, {<<(<<"k1", "h1">>), "v2">>},
                 {<<(<<"k2", "h1">>), "v1">>}}
      [] f = "m_tap_scripts" ->
            {{}, {<<(<<"v1", 192>>), {"c1"}>>}, {<<(<<"v1", 192>>), {"c2"}>>},
                 {<<(<<"v2", 192>>), {"c1"}>>}}
      [] f = "m_tap_bip32_paths" ->
            {{}, {<<"k1", <<{"h1"}, "o1">> >>}, {<<"k1", <<{"h2"}, "o1">> >>},
                 {<<"k2", <<{"h1"}, "o1">> >>}}
      [] f = "m_proprietary" -> Proprietaries
      [] OTHER -> StringMaps

OutputFieldValues(f) ==
    CASE f \in {"redeem_script", "witness_script", "m_tap_internal_key"} -> Strings
      [] f = "m_tap_tree" -> {<<>>, << <<0, 192, "v1">> >>, << <<0, 192, "v2">> >>}
      [] f = "m_tap_bip32_paths" ->
            {{}, {<<"k1", <<{"h1"}, "o1">> >>}, {<<"k1", <<{"h2"}, "o1">> >>},
                 {<<"k2", <<{"h1"}, "o1">> >>}}
      [] f = "m_proprietary" -> Proprietaries
      [] OTHER -> StringMaps

GlobalFieldValues(f) ==
    CASE f = "m_xpubs" ->
            {{}, {<<"o1", {"x1"}>>}, {<<"o1", {"x2"}>>}, {<<"o2", {"x1"}>>}}
      [] f = "m_version" -> {<<>>, <<0>>, <<1>>}
      [] f = "m_proprietary" -> Proprietaries
      [] OTHER -> StringMaps

Cells ==
    {<<"in", i, f>> : i \in 1..Len(TxA.vin), f \in InputFields}
    \cup {<<"out", i, f>> : i \in 1..Len(TxA.vout), f \in OutputFields}
    \cup {<<"glob", 0, f>> : f \in GlobalFields}

CellValues(cell) ==
    CASE cell[1] = "in"  -> InputFieldValues(cell[3])
      [] cell[1] = "out" -> OutputFieldValues(cell[3])
      [] OTHER           -> GlobalFieldValues(cell[3])

\* The PSKT p with the cell set to v.
Put(p, cell, v) ==
    CASE cell[1] = "in"  -> [p EXCEPT !.inputs[cell[2]][cell[3]] = v]
      [] cell[1] = "out" -> [p EXCEPT !.outputs[cell[2]][cell[3]] = v]
      [] OTHER           -> [p EXCEPT ![cell[3]] = v]

NoOp == [op |-> "none", args |-> <<>>, ret |-> FALSE, out |-> <<>>]

NoSigners == [s \in Slots |-> {}]

\* The PSKT dialog as constructed, without a wallet: both buttons disabled.
NoDialog == [wallet |-> <<>>, signEnabled |-> FALSE, broadcastEnabled |-> FALSE]

\* The operand lists CombinePSKTs is applied to.
ArgLists == {<<"a">>, <<"a", "a">>, <<"a", "b">>, <<"a", "b", "c">>}

\* The operand pairs Merge is applied to.
ArgPairs == {<<"a", "b">>, <<"a", "a">>}

\* The base64 strings handed to the RPCs: the name of a slot stands for the
\* encoding of the PSKT held there, any other name for a string that is no
\* encoding of a PSKT.
RpcStrings == Slots \cup {"garbage"}

\* DecodeBase64PSKT on a string of RpcStrings.
DecodeBase64PSKT(str) ==
    IF str \in Slots THEN [ok |-> TRUE, pskt |-> pskts[str]]
    ELSE [ok |-> FALSE, pskt |-> <<>>]

\* The request arrays combinepskt is called with.
RpcArgLists == ArgLists \cup {<<>>, <<"a", "garbage">>}

\* The combinepskt RPC: [error, result], result holding the PSKT returned
\* (encoded) when there is no error.
combinepskt(txs) ==
    IF Len(txs) = 0
    THEN [error |-> "RPC_INVALID_PARAMETER", result |-> <<>>]
    ELSE IF \E i \in DOMAIN txs : ~DecodeBase64PSKT(txs[i]).ok
    THEN [error |-> "RPC_DESERIALIZATION_ERROR", result |-> <<>>]
    ELSE LET c == CombinePSKTs([i \in DOMAIN txs |-> DecodeBase64PSKT(txs[i]).pskt])
         IN  IF c.err # "OK"
             THEN [error |-> c.err, result |-> <<>>]
             ELSE [error |-> "", result |-> <<c.out>>]

\* A finalizepskt that extracts whenever the transaction is complete.
finalizepskt_Finalized_AlwaysExtract(f, extract) ==
    IF f.ret
    THEN [hex |-> <<f.result>>, pskt |-> <<>>, complete |-> <<f.ret>>]
    ELSE [hex |-> <<>>, pskt |-> <<f.pskt>>, complete |-> <<f.ret>>]

\* finalizepskt once FinalizeAndExtractPSKT has returned f: the result object,
\* a key that is not pushed being <<>>; extract is <<>> for a null parameter.
finalizepskt_Finalized(f, extract) ==
    IF f.ret /\ (extract = <<>> \/ extract[1])
    THEN [hex |-> <<f.result>>, pskt |-> <<>>, complete |-> <<f.ret>>]
    ELSE [hex |-> <<>>, pskt |-> <<f.pskt>>, complete |-> <<f.ret>>]

\* The finalizepskt RPC: [error, result].
finalizepskt(str, extract) ==
    IF ~DecodeBase64PSKT(str).ok
    THEN [error |-> "RPC_DESERIALIZATION_ERROR", result |-> <<>>]
    ELSE [error |-> "",
          result |-> <<finalizepskt_Finalized(
                          FinalizeAndExtractPSKT(DecodeBase64PSKT(str).pskt, EmptyTx),
                          extract)>>]

InitMerge ==
    /\ \E cell \in Cells :
         \E va \in CellValues(cell), vb \in CellValues(cell), vc \in CellValues(cell) :
           \E tb \in {TxA, TxB}, tc \in {TxA, TxB} :
             pskts = [s \in Slots |->
                CASE s = "a" -> Put(PartiallySignedTransaction(TxA), cell, va)
                  [] s = "b" -> Put(PartiallySignedTransaction(tb), cell, vb)
                  [] OTHER   -> Put(PartiallySignedTransaction(tc), cell, vc)]
    /\ last = NoOp
    /\ signedBy = NoSigners
    /\ dialog = NoDialog

\* x.Merge(y) on copies of the operands: the return value and x afterwards.
MergeApply(x, y) ==
    /\ last.op = "none"
    /\ LET m == Merge(pskts[x], pskts[y])
       IN  last' = [op |-> "Merge", args |-> <<x, y>>, ret |-> m.ret, out |-> m.pskt]
    /\ UNCHANGED <<pskts, signedBy, dialog>>

\* CombinePSKTs(out, psktxs) on the operands named by args.
CombineApply(args) ==
    /\ last.op = "none"
    /\ LET c == CombinePSKTs([k \in DOMAIN args |-> pskts[args[k]]])
       IN  last' = [op |-> "Combine", args |-> args, ret |-> c.err, out |-> c.out]
    /\ UNCHANGED <<pskts, signedBy, dialog>>

\* A call of the combinepskt RPC.
CombineRpc(txs) ==
    /\ last.op = "none"
    /\ LET r == combinepskt(txs)
       IN  last' = [op |-> "combinepskt", args |-> txs, ret |-> r.error,
                    out |-> r.result]
    /\ UNCHANGED <<pskts, signedBy, dialog>>

NextMerge ==
    \/ \E pr \in ArgPairs : MergeApply(pr[1], pr[2])
    \/ \E args \in ArgLists : CombineApply(args)
    \/ \E txs \in RpcArgLists : CombineRpc(txs)

SpecMerge == InitMerge /\ [][NextMerge]_vars

-----------------------------------------------------------------------------
(* The PSKT workflow: the parties, the transactions they build and the      *)
(* operations they apply to the PSKTs they hold                              *)

\* The signing providers of the parties: two cosigners holding one private
\* key each, and a watch-only party that knows the scripts and key origins.
Provider(name) ==
    CASE name = "Signer1" ->
            [keys |-> {"k1"}, pubkeys |-> {"k1", "k2"},
             scripts |-> {"multi_2of2", "multi_1of2"}, origins |-> {"k1"}]
      [] name = "Signer2" ->
            [keys |-> {"k2"}, pubkeys |-> {"k1", "k2"},
             scripts |-> {"multi_2of2", "multi_1of2"}, origins |-> {"k2"}]
      [] OTHER ->
            [keys |-> {}, pubkeys |-> {"k1", "k2"},
             scripts |-> {"multi_2of2", "multi_1of2"}, origins |-> {"k1", "k2"}]

Signers == {"Signer1", "Signer2"}

\* The transactions with spendable outputs.
Chain == {PrevTx1, PrevTx2}

\* The inputs the parties spend.
In1 == MakeTxIn(GetHash(PrevTx1), 0)
In2 == MakeTxIn(GetHash(PrevTx1), 1)
In3 == MakeTxIn(GetHash(PrevTx2), 0)

\* The unsigned transactions the Creator starts from.
Tx1 == MakeTx(<<In1>>, <<Coin(4, "dest")>>, 0)
TxC == MakeTx(<<In3>>, <<Coin(3, "wsh_multi_1of2")>>, 1)

CreateTxs == {Tx1, TxA}

\* The raw transactions handed to converttopskt: unsigned, and with a
\* scriptSig left in an input.
RawTxs == {Tx1, [Tx1 EXCEPT !.vin[1].scriptSig = <<Data("sig")>>]}

\* The inputs and outputs a party adds to a PSKT, with their records.
AddableInputs == {In2, [In2 EXCEPT !.nSequence = 1]}
AddableInputRecords ==
    {BlankInput,
     [BlankInput EXCEPT !.witness_utxo = PrevTx1.vout[1],
                        !.witness_script = "multi_2of2",
                        !.partial_sigs = {<<"k1", MakeSig("k1", TxA, 1, 1)>>}]}
AddableOutputs == {Coin(1, "pkh_k1")}
AddableOutputRecords == {BlankOutput}

\* The most inputs and outputs a PSKT is grown to.
MaxInputs == 2
MaxOutputs == 1

\* An Updater outside the engine (a wallet) attaching to every input that has
\* no UTXO yet the transaction it spends from (kind "non_witness_utxo") or the
\* output it spends (kind "witness_utxo"), both looked up in the chain.
UpdaterFill(pskt, kind) ==
    [pskt EXCEPT !.inputs = [i \in DOMAIN pskt.inputs |->
        LET input == pskt.inputs[i]
            prevout == pskt.tx.vin[i].prevout
            prev == CHOOSE t \in Chain : GetHash(t) = prevout.hash
        IN  IF input.non_witness_utxo # <<>> \/ ~TxOutIsNull(input.witness_utxo)
            THEN input
            ELSE IF kind = "non_witness_utxo"
            THEN [input EXCEPT !.non_witness_utxo = <<prev>>]
            ELSE [input EXCEPT !.witness_utxo = prev.vout[prevout.n + 1]]]]

UpdaterKinds == {"non_witness_utxo", "witness_utxo"}

Fresh == PartiallySignedTransaction(EmptyTx)

Op(op, args, ret, out) == [op |-> op, args |-> args, ret |-> ret, out |-> out]

Init ==
    /\ pskts = [s \in Slots |-> Fresh]
    /\ last = NoOp
    /\ signedBy = NoSigners
    /\ dialog = NoDialog

\* PartiallySignedTransaction(tx) constructed in a slot not yet used.
Construct(s, tx) ==
    /\ pskts[s] = Fresh
    /\ pskts' = [pskts EXCEPT ![s] = PartiallySignedTransaction(tx)]
    /\ last' = Op("constructor", <<>>, TRUE, <<>>)
    /\ UNCHANGED <<signedBy, dialog>>

\* createpskt, its result kept in a slot not yet used.
CreatePskt(s, rawTx) ==
    /\ pskts[s] = Fresh
    /\ LET r == createpskt(rawTx)
       IN  /\ pskts' = [pskts EXCEPT ![s] = r.result[1]]
           /\ last' = Op("createpskt", <<>>, r.error, <<>>)
    /\ UNCHANGED <<signedBy, dialog>>

\* converttopskt, its result (if any) kept in a slot not yet used.
ConvertToPskt(s, tx, permitsigdata) ==
    /\ pskts[s] = Fresh
    /\ LET r == converttopskt(tx, permitsigdata)
       IN  /\ pskts' = IF r.error = "" THEN [pskts EXCEPT ![s] = r.result[1]] ELSE pskts
           /\ last' = Op("converttopskt", <<tx, permitsigdata>>, r.error, <<>>)
    /\ UNCHANGED <<signedBy, dialog>>

\* joinpskts on the PSKTs of slots x and y, its result (if any) replacing
\* the PSKT of slot x.
JoinPskts(x, y) ==
    /\ Len(pskts[x].tx.vin) + Len(pskts[y].tx.vin) <= MaxInputs
    /\ Len(pskts[x].tx.vout) + Len(pskts[y].tx.vout) <= MaxOutputs
    /\ \E input_indices \in ShuffleOrders(Len(pskts[x].tx.vin) + Len(pskts[y].tx.vin)) :
       \E output_indices \in ShuffleOrders(Len(pskts[x].tx.vout) + Len(pskts[y].tx.vout)) :
          LET r == joinpskts(<<pskts[x], pskts[y]>>, input_indices, output_indices)
          IN  /\ pskts' = IF r.error = <<>> THEN [pskts EXCEPT ![x] = r.result[1]] ELSE pskts
              /\ last' = Op("joinpskts", <<>>, r.error, <<>>)
    /\ UNCHANGED <<signedBy, dialog>>

\* AddInput on the PSKT of slot s.
AddInputStep(s, txin, psktin) ==
    /\ Len(pskts[s].tx.vin) < MaxInputs
    /\ LET r == AddInput(pskts[s], txin, psktin)
       IN  /\ pskts' = [pskts EXCEPT ![s] = r.pskt]
           /\ last' = Op("AddInput", <<txin>>, r.ret, <<>>)
    /\ UNCHANGED <<signedBy, dialog>>

\* AddOutput on the PSKT of slot s.
AddOutputStep(s, txout, psktout) ==
    /\ Len(pskts[s].tx.vout) < MaxOutputs
    /\ LET r == AddOutput(pskts[s], txout, psktout)
       IN  /\ pskts' = [pskts EXCEPT ![s] = r.pskt]
           /\ last' = Op("AddOutput", <<txout>>, r.ret, <<>>)
    /\ UNCHANGED <<signedBy, dialog>>

\* A copy of the PSKT of slot x handed out into the unused slot y.
Clone(x, y) ==
    /\ pskts[y] = Fresh
    /\ pskts[x] # Fresh
    /\ \A i \in DOMAIN pskts[x].inputs :
          ~PSKTInputSigned(pskts[x].inputs[i]) /\ pskts[x].inputs[i].partial_sigs = {}
    /\ pskts' = [pskts EXCEPT ![y] = pskts[x]]
    /\ last' = Op("clone", <<>>, TRUE, <<>>)
    /\ UNCHANGED <<signedBy, dialog>>

\* x.Merge(y) in place.
MergeStep(x, y) ==
    /\ LET m == Merge(pskts[x], pskts[y])
       IN  /\ pskts' = [pskts EXCEPT ![x] = m.pskt]
           /\ last' = Op("Merge", <<>>, m.ret, <<>>)
    /\ UNCHANGED <<signedBy, dialog>>

\* The Updater at work on the PSKT of slot s.
UpdaterStep(s, kind) ==
    /\ pskts[s].tx.vin # <<>>
    /\ pskts' = [pskts EXCEPT ![s] = UpdaterFill(@, kind)]
    /\ last' = Op("updater", <<>>, TRUE, <<>>)
    /\ UNCHANGED <<signedBy, dialog>>

\* A signer calling SignPSKTInput on input i of the PSKT of slot s.
SignInputStep(s, i, name, finalize) ==
    /\ i \in DOMAIN pskts[s].inputs
    /\ LET r == SignPSKTInput(Provider(name), pskts[s], i,
                              <<PrecomputePSKTData(pskts[s])>>, SIGHASH_ALL, finalize)
       IN  /\ pskts' = [pskts EXCEPT ![s] = r.pskt]
           /\ last' = Op("SignPSKTInput", <<s, i, name>>, r.ret, <<>>)
    /\ UNCHANGED <<signedBy, dialog>>

\* UpdatePSKTOutput on output i of the PSKT of slot s.
UpdateOutputStep(s, i, name) ==
    /\ i \in DOMAIN pskts[s].outputs
    /\ pskts' = [pskts EXCEPT ![s] = UpdatePSKTOutput(Provider(name), @, i)]
    /\ last' = Op("UpdatePSKTOutput", <<>>, TRUE, <<>>)
    /\ UNCHANGED <<signedBy, dialog>>

\* FinalizePSKT on the PSKT of slot s.
FinalizeStep(s) ==
    /\ LET r == FinalizePSKT(pskts[s])
       IN  /\ pskts' = [pskts EXCEPT ![s] = r.pskt]
           /\ last' = Op("FinalizePSKT", <<>>, r.ret, <<>>)
    /\ UNCHANGED <<signedBy, dialog>>

\* FinalizeAndExtractPSKT on the PSKT of slot s, the result starting as an
\* empty transaction.
ExtractStep(s) ==
    /\ LET r == FinalizeAndExtractPSKT(pskts[s], EmptyTx)
       IN  /\ pskts' = [pskts EXCEPT ![s] = r.pskt]
           /\ last' = Op("FinalizeAndExtractPSKT", <<>>, r.ret, <<r.result>>)
    /\ UNCHANGED <<signedBy, dialog>>

Next ==
    \/ \E tx \in CreateTxs : Construct("a", tx)
    \/ \E rawTx \in CreateTxs : CreatePskt("a", rawTx)
    \/ CreatePskt("b", TxC)
    \/ \E tx \in RawTxs : \E permitsigdata \in BOOLEAN :
          ConvertToPskt("a", tx, permitsigdata)
    \/ JoinPskts("a", "b")
    \/ \E txin \in AddableInputs : \E psktin \in AddableInputRecords :
          AddInputStep("a", txin, psktin)
    \/ \E txout \in AddableOutputs : \E psktout \in AddableOutputRecords :
          AddOutputStep("a", txout, psktout)
    \/ Clone("a", "b")
    \/ MergeStep("a", "b")
    \/ \E kind \in UpdaterKinds : UpdaterStep("a", kind)
    \/ \E i \in 1..MaxInputs : \E finalize \in BOOLEAN :
          SignInputStep("a", i, "Signer1", finalize)
    \/ \E i \in 1..MaxInputs : \E finalize \in BOOLEAN :
          SignInputStep("b", i, "Signer2", finalize)
    \/ \E i \in 1..MaxOutputs : \E name \in {"Watcher"} :
          UpdateOutputStep("a", i, name)
    \/ FinalizeStep("a")
    \/ ExtractStep("a")

Spec == Init /\ [][Next]_vars

-----------------------------------------------------------------------------
(* The analyzer at work: PSKTs as a decoder can deliver them, well formed    *)
(* and malformed, analyzed, signed and finalized                             *)

\* An earlier transaction with an amount above the money range, an
\* unspendable output and an amount that overflows the range in a sum.
PrevTx3 ==
    MakeTx(<<>>, <<Coin(MAX_MONEY + 1, "pkh_k1"), Coin(1, "op_return"),
                   Coin(MAX_MONEY - 2, "wpkh_k2")>>, 0)

AllPrevTxs == {PrevTx1, PrevTx2, PrevTx3}

In4 == MakeTxIn(GetHash(PrevTx2), 1)

\* The unsigned transactions analyzed: well formed ones, and ones with
\* outputs above the money range, an input of too large a value, an
\* unspendable spent output, a spent output that does not exist, inputs
\* whose sum leaves the money range, and no input at all.
TxD == MakeTx(<<In4>>, <<Coin(1, "dest")>>, 0)
TxE == MakeTx(<<In2>>, <<Coin(MAX_MONEY + 1, "dest")>>, 0)
TxF == MakeTx(<<MakeTxIn(GetHash(PrevTx3), 0)>>, <<Coin(1, "dest")>>, 0)
TxG == MakeTx(<<MakeTxIn(GetHash(PrevTx3), 1)>>, <<Coin(1, "dest")>>, 0)
TxH == MakeTx(<<MakeTxIn(GetHash(PrevTx1), 2)>>, <<Coin(1, "dest")>>, 0)
TxI == MakeTx(<<MakeTxIn(GetHash(PrevTx3), 2), In2>>, <<Coin(1, "dest")>>, 0)
TxJ == MakeTx(<<>>, <<Coin(1, "dest")>>, 0)
\* A transaction that pays out all it spends.
TxK == MakeTx(<<In2>>, <<Coin(3, "dest")>>, 0)

AnalyzedTxs == {TxA, TxC, TxD, TxE, TxF, TxG, TxH, TxI, TxJ, TxK}

\* What an input is given as its UTXO: nothing, the transaction it spends
\* from, the output it spends, or another transaction than the one it spends
\* from.
UtxoKinds == {"none", "non_witness_utxo", "witness_utxo", "mismatch"}

\* The PSKT over a transaction whose inputs are given UTXOs of these kinds.
WithUtxos(tx, kinds) ==
    [BlankPskt(tx) EXCEPT !.inputs = [i \in DOMAIN tx.vin |->
        LET prevout == tx.vin[i].prevout
            prev == CHOOSE t \in AllPrevTxs : GetHash(t) = prevout.hash
            others == {t \in AllPrevTxs : GetHash(t) # prevout.hash}
            other == IF \E t \in others : Len(t.vout) > prevout.n
                     THEN CHOOSE t \in others : Len(t.vout) > prevout.n
                     ELSE CHOOSE t \in others : TRUE
        IN  CASE kinds[i] = "non_witness_utxo" ->
                    [BlankInput EXCEPT !.non_witness_utxo = <<prev>>]
              [] kinds[i] = "mismatch" ->
                    [BlankInput EXCEPT !.non_witness_utxo = <<other>>]
              [] kinds[i] = "witness_utxo" ->
                    [BlankInput EXCEPT !.witness_utxo =
                        IF prevout.n < Len(prev.vout)
                        THEN prev.vout[prevout.n + 1] ELSE prev.vout[1]]
              [] OTHER -> BlankInput]]

AnalyzedPskts ==
    {WithUtxos(tx, kinds) : tx \in AnalyzedTxs, kinds \in [1..MaxInputs -> UtxoKinds]}

\* IsSegWitOutput: the script is a witness program.
IsSegWitOutput(provider, script) ==
    Solver(script).type \in {"WITNESS_V0_KEYHASH", "WITNESS_V0_SCRIPTHASH"}

\* The FlatSigningProvider utxoupdatepskt fills from its descriptors: empty
\* without descriptors, else what the descriptors of the named party give.
NoDescriptors == [keys |-> {}, pubkeys |-> {}, scripts |-> {}, origins |-> {}]
DescriptorLists == {<<>>, <<"Signer1">>, <<"Watcher">>}
DescriptorProvider(descs) == IF descs = <<>> THEN NoDescriptors ELSE Provider(descs[1])

\* HidingSigningProvider(&provider, hide_secret = true, hide_origin = false)
HidingSigningProvider(provider) == [provider EXCEPT !.keys = {}]

\* view.AccessCoin(prevout): the output of the coin, null when the view has
\* no such coin.
AccessCoin(view, prevout) ==
    IF \E t \in view : GetHash(t) = prevout.hash /\ prevout.n < Len(t.vout)
    THEN (CHOOSE t \in view : GetHash(t) = prevout.hash).vout[prevout.n + 1]
    ELSE NullTxOut

\* A loop body that takes the looked-up coin for the witness UTXO whatever its
\* script.
utxoupdatepskt_Input_AnyCoin(provider, psktx, txdata, coin_out, i) ==
    IF psktx.inputs[i].non_witness_utxo # <<>> \/ ~TxOutIsNull(psktx.inputs[i].witness_utxo)
    THEN psktx
    ELSE SignPSKTInput(HidingSigningProvider(provider),
             [psktx EXCEPT !.inputs[i].witness_utxo = coin_out],
             i, <<txdata>>, 1, TRUE).pskt

\* The body of utxoupdatepskt's loop over the inputs, coin_out being the
\* output of the coin looked up for input i.
utxoupdatepskt_Input(provider, psktx, txdata, coin_out, i) ==
    IF psktx.inputs[i].non_witness_utxo # <<>> \/ ~TxOutIsNull(psktx.inputs[i].witness_utxo)
    THEN psktx
    ELSE SignPSKTInput(HidingSigningProvider(provider),
             IF IsSegWitOutput(provider, coin_out.scriptPubKey)
             THEN [psktx EXCEPT !.inputs[i].witness_utxo = coin_out]
             ELSE psktx,
             i, <<txdata>>, 1, TRUE).pskt

\* utxoupdatepskt's loop over the inputs, from input i on.
RECURSIVE UtxoUpdateInputs(_, _, _, _, _)
UtxoUpdateInputs(provider, psktx, txdata, view, i) ==
    IF i > Len(psktx.tx.vin) THEN psktx
    ELSE UtxoUpdateInputs(provider,
             utxoupdatepskt_Input(provider, psktx, txdata,
                                  AccessCoin(view, psktx.tx.vin[i].prevout), i),
             txdata, view, i + 1)

\* utxoupdatepskt's loop over the outputs, from output i on.
RECURSIVE UtxoUpdateOutputs(_, _, _)
UtxoUpdateOutputs(public_provider, psktx, i) ==
    IF i > Len(psktx.tx.vout) THEN psktx
    ELSE UtxoUpdateOutputs(public_provider,
                           UpdatePSKTOutput(public_provider, psktx, i), i + 1)

\* The utxoupdatepskt RPC over the coins of view: [error, result].
utxoupdatepskt(str, descs, view) ==
    IF ~DecodeBase64PSKT(str).ok
    THEN [error |-> "RPC_DESERIALIZATION_ERROR", result |-> <<>>]
    ELSE [error |-> "",
          result |-> <<UtxoUpdateOutputs(HidingSigningProvider(DescriptorProvider(descs)),
                          UtxoUpdateInputs(DescriptorProvider(descs),
                              DecodeBase64PSKT(str).pskt,
                              PrecomputePSKTData(DecodeBase64PSKT(str).pskt), view, 1),
                          1)>>]

\* The coins the node may hold: all of them, or those of one transaction.
CoinViews == {AllPrevTxs, {PrevTx2}}

InitAnalyze ==
    /\ \E p \in AnalyzedPskts :
          pskts = [s \in Slots |-> IF s = "a" THEN p
                                   ELSE IF s = "b" THEN BlankPskt(TxB) ELSE Fresh]
    /\ last = NoOp
    /\ signedBy = NoSigners
    /\ dialog = NoDialog

\* AnalyzePSKT on a copy of the PSKT of slot s.
AnalyzeStep(s) ==
    /\ last' = Op("AnalyzePSKT", <<s>>, TRUE, <<AnalyzePSKT(pskts[s])>>)
    /\ UNCHANGED <<pskts, signedBy, dialog>>

\* GetInputUTXO on input i of the PSKT of slot s.
GetInputUTXOStep(s, i) ==
    /\ i \in DOMAIN pskts[s].inputs
    /\ LET r == GetInputUTXO(pskts[s], i)
       IN  last' = Op("GetInputUTXO", <<s, i>>, r.ret, <<r.utxo>>)
    /\ UNCHANGED <<pskts, signedBy, dialog>>

\* renderTransaction on the PSKT of slot s. An analysis without a fee has its
\* fee read all the same; what is read is then any amount.
RenderStep_Analyzed(s, analysis) ==
    /\ \E indeterminate \in IndeterminateAmounts :
          last' = Op("renderTransaction", <<s>>,
                     renderTransaction_Fee(analysis, indeterminate), <<analysis>>)
    /\ UNCHANGED <<pskts, signedBy, dialog>>

RenderStep(s) ==
    /\ s \in Slots
    /\ RenderStep_Analyzed(s, AnalyzePSKT(pskts[s]))

\* A call of the finalizepskt RPC on the encoding of the PSKT of slot s or
\* on another string, with extract given or left out.
FinalizeRpc(str, extract) ==
    /\ LET r == finalizepskt(str, extract)
       IN  last' = Op("finalizepskt", <<str, extract>>, r.error, r.result)
    /\ UNCHANGED <<pskts, signedBy, dialog>>

\* A call of the utxoupdatepskt RPC, the node holding the coins of view.
UtxoUpdateRpc(str, descs, view) ==
    /\ LET r == utxoupdatepskt(str, descs, view)
       IN  last' = Op("utxoupdatepskt", <<str, descs, view>>, r.error, r.result)
    /\ UNCHANGED <<pskts, signedBy, dialog>>

NextAnalyze ==
    \/ AnalyzeStep("a")
    \/ RenderStep("a")
    \/ \E str \in {"a", "garbage"} : \E descs \in DescriptorLists :
          \E view \in CoinViews : UtxoUpdateRpc(str, descs, view)
    \/ \E str \in {"a", "garbage"} : \E extract \in {<<>>, <<TRUE>>, <<FALSE>>} :
          FinalizeRpc(str, extract)
    \/ \E i \in 1..MaxInputs : GetInputUTXOStep("a", i)
    \/ \E i \in 1..MaxInputs : \E name \in Signers : \E finalize \in BOOLEAN :
          SignInputStep("a", i, name, finalize)
    \/ FinalizeStep("a")
    \/ MergeStep("a", "b")
    \/ \E txin \in AddableInputs : \E psktin \in AddableInputRecords :
          AddInputStep("a", txin, psktin)

SpecAnalyze == InitAnalyze /\ [][NextAnalyze]_vars

-----------------------------------------------------------------------------
(* The PSKT dialog: a PSKT is opened, signed with the wallet and broadcast   *)

\* The loop of the wallet's fillPSKT from input i on: SignPSKTInput with the
\* wallet's provider on every input.
RECURSIVE FillFrom(_, _, _, _)
FillFrom(provider, psktx, txdata, i) ==
    IF i > Len(psktx.tx.vin)
    THEN psktx
    ELSE FillFrom(provider,
                  SignPSKTInput(provider, psktx, i, <<txdata>>, SIGHASH_ALL, TRUE).pskt,
                  txdata, i + 1)

\* interfaces::Wallet::fillPSKT(SIGHASH_ALL, sign, bip32derivs, &n_signed,
\* psktx, complete) for the wallet of the named party: [err, pskt, complete,
\* n_signed]. The private keys are used when sign is set; n_signed counts the
\* inputs that had no final script and, when signing, were signed; complete
\* says that every input has a final script. A fill that fails leaves the
\* PSKT as it was.
fillPSKT_Filled(sign, psktx, filled, fails) ==
    IF fails
    THEN [err |-> "SIGHASH_MISMATCH", pskt |-> psktx, complete |-> FALSE,
          n_signed |-> 0]
    ELSE [err |-> "OK", pskt |-> filled,
          complete |-> \A i \in DOMAIN filled.inputs :
                          PSKTInputSigned(filled.inputs[i]),
          n_signed |-> Cardinality({i \in DOMAIN psktx.inputs :
                          /\ ~PSKTInputSigned(psktx.inputs[i])
                          /\ sign => filled.inputs[i] # psktx.inputs[i]})]

fillPSKT(wallet, sign, psktx, fails) ==
    fillPSKT_Filled(sign, psktx,
        FillFrom(IF sign THEN Provider(wallet)
                 ELSE HidingSigningProvider(Provider(wallet)),
                 psktx, PrecomputePSKTData(psktx), 1),
        fails)

\* WalletModel::wallet().privateKeysDisabled()
privateKeysDisabled(wallet) == Provider(wallet).keys = {}

\* PSKTOperationsDialog::couldSignInputs, called by showTransactionStatus on
\* every update of the display: the PSKT of the dialog after its fill.
couldSignInputs(wallet, m_transaction_data, fails) ==
    IF wallet = <<>>
    THEN m_transaction_data
    ELSE fillPSKT(wallet[1], FALSE, m_transaction_data, fails).pskt

\* openWithPSKT with a wallet after fillPSKT has returned r.
openWithPSKT_Filled(d, r, fails) ==
    IF r.err # "OK"
    THEN [status |-> "Failed to load transaction: %1",
          m_transaction_data |-> r.pskt, dialog |-> d, handed |-> <<>>]
    ELSE [status |-> "",
          m_transaction_data |-> couldSignInputs(d.wallet, r.pskt, fails),
          dialog |-> [d EXCEPT
             !.signEnabled = /\ ~r.complete
                             /\ ~privateKeysDisabled(d.wallet[1])
                             /\ r.n_signed > 0,
             !.broadcastEnabled = r.complete],
          handed |-> <<>>]

\* PSKTOperationsDialog::openWithPSKT: [status, m_transaction_data, dialog,
\* handed], handed being the transaction given to the node, if any.
openWithPSKT(d, psktx, fails, fails_again) ==
    IF d.wallet # <<>>
    THEN openWithPSKT_Filled(d, fillPSKT(d.wallet[1], FALSE, psktx, fails),
                             fails_again)
    ELSE [status |-> "", m_transaction_data |-> psktx,
          dialog |-> [d EXCEPT !.signEnabled = FALSE,
                               !.broadcastEnabled = FinalizePSKT(psktx).ret],
          handed |-> <<>>]

\* PSKTOperationsDialog::signTransaction after fillPSKT has returned r, with
\* the wallet unlocked or not.
signTransaction_Filled(d, r, unlocked, fails) ==
    IF r.err # "OK"
    THEN [status |-> "Failed to sign transaction: %1",
          m_transaction_data |-> r.pskt, dialog |-> d, handed |-> <<>>]
    ELSE [status |->
             IF ~r.complete /\ ~unlocked
             THEN "Cannot sign inputs while wallet is locked."
             ELSE IF ~r.complete /\ r.n_signed < 1
             THEN "Could not sign any more inputs."
             ELSE IF ~r.complete
             THEN "Signed %1 inputs, but more signatures are still required."
             ELSE "Signed transaction successfully. Transaction is ready to broadcast.",
          m_transaction_data |-> couldSignInputs(d.wallet, r.pskt, fails),
          dialog |-> IF r.complete THEN [d EXCEPT !.broadcastEnabled = TRUE] ELSE d,
          handed |-> <<>>]

\* PSKTOperationsDialog::signTransaction; a locked wallet signs with no keys.
signTransaction(d, m_transaction_data, unlocked, fails, fails_again) ==
    signTransaction_Filled(d,
        fillPSKT(d.wallet[1], unlocked, m_transaction_data, fails),
        unlocked, fails_again)

\* PSKTOperationsDialog::broadcastTransaction after FinalizeAndExtractPSKT
\* has returned r, accepted saying what the node answers.
broadcastTransaction_Extracted(d, r, accepted) ==
    IF ~r.ret
    THEN [status |-> "Unknown error processing transaction.",
          m_transaction_data |-> r.pskt, dialog |-> d, handed |-> <<>>]
    ELSE [status |-> IF accepted
                     THEN "Transaction broadcast successfully! Transaction ID: %1"
                     ELSE "Transaction broadcast failed: %1",
          m_transaction_data |-> r.pskt, dialog |-> d, handed |-> <<r.result>>]

\* PSKTOperationsDialog::broadcastTransaction
broadcastTransaction(d, m_transaction_data, accepted) ==
    broadcastTransaction_Extracted(d,
        FinalizeAndExtractPSKT(m_transaction_data, EmptyTx), accepted)

\* The wallets a dialog is made with: none, a cosigner's, a watch-only one.
DialogWallets == {<<>>, <<"Signer1">>, <<"Watcher">>}

\* The PSKTs loaded into the dialog: a PSKT after the Updater's work, as it
\* is or after one cosigner or both have filled it.
LoadedPskts ==
    LET handed == {UpdaterFill(BlankPskt(tx), kind) :
                      tx \in {Tx1, TxA, TxC}, kind \in UpdaterKinds}
        Filled(name, p) == FillFrom(Provider(name), p, PrecomputePSKTData(p), 1)
    IN  handed \cup {Filled("Signer2", p) : p \in handed}
               \cup {Filled("Signer1", Filled("Signer2", p)) : p \in handed}

InitDialog ==
    /\ pskts = [s \in Slots |-> Fresh]
    /\ last = NoOp
    /\ signedBy = NoSigners
    /\ \E wallet \in DialogWallets : dialog = [NoDialog EXCEPT !.wallet = wallet]

\* The handler of an event has run with the outcome r.
DialogStep(op, args, r) ==
    /\ pskts' = [pskts EXCEPT !["a"] = r.m_transaction_data]
    /\ dialog' = r.dialog
    /\ last' = Op(op, args, r.status, r.handed)
    /\ UNCHANGED signedBy

\* The PSKT psktx is loaded into the dialog.
OpenEvent(psktx, fails, fails_again) ==
    /\ psktx \in LoadedPskts
    /\ DialogStep("openWithPSKT", <<psktx>>,
                  openWithPSKT(dialog, psktx, fails, fails_again))

\* The sign button is clicked.
SignEvent(unlocked, fails, fails_again) ==
    /\ dialog.signEnabled
    /\ DialogStep("signTransaction", <<>>,
                  signTransaction(dialog, pskts["a"], unlocked, fails, fails_again))

\* The broadcast button is clicked.
BroadcastEvent(accepted) ==
    /\ dialog.broadcastEnabled
    /\ DialogStep("broadcastTransaction", <<pskts["a"]>>,
                  broadcastTransaction(dialog, pskts["a"], accepted))

NextDialog ==
    \/ \E psktx \in LoadedPskts : \E fails \in BOOLEAN : \E fails_again \in BOOLEAN :
          OpenEvent(psktx, fails, fails_again)
    \/ \E unlocked \in BOOLEAN : \E fails \in BOOLEAN : \E fails_again \in BOOLEAN :
          SignEvent(unlocked, fails, fails_again)
    \/ \E accepted \in BOOLEAN : BroadcastEvent(accepted)

SpecDialog == InitDialog /\ [][NextDialog]_vars

-----------------------------------------------------------------------------
(* Parallel signing: copies of one PSKT handed to the cosigners, signed by   *)
(* each on its own and combined                                              *)

\* The PSKTs handed out: a created PSKT after the Updater's work.
HandedOut ==
    {UpdaterFill(BlankPskt(tx), kind) : tx \in {TxA, TxC}, kind \in UpdaterKinds}

InitSign ==
    /\ \E p \in HandedOut : pskts = [s \in Slots |-> p]
    /\ last = NoOp
    /\ signedBy = NoSigners
    /\ dialog = NoDialog

\* A Signer at work on a PSKT: SignPSKTInput on every input, from input i on,
\* with the data precomputed before the first.
RECURSIVE SignAllFrom(_, _, _, _, _)
SignAllFrom(provider, pskt, txdata, finalize, i) ==
    IF i > Len(pskt.tx.vin)
    THEN pskt
    ELSE SignAllFrom(provider,
                     SignPSKTInput(provider, pskt, i, <<txdata>>, SIGHASH_ALL,
                                   finalize).pskt,
                     txdata, finalize, i + 1)

SignAll(provider, pskt, finalize) ==
    SignAllFrom(provider, pskt, PrecomputePSKTData(pskt), finalize, 1)

\* A cosigner signing the copy in slot s.
CosignStep(s, name, finalize) ==
    /\ last.op # "Combine"
    /\ pskts' = [pskts EXCEPT ![s] = SignAll(Provider(name), @, finalize)]
    /\ last' = Op("sign", <<s>>, TRUE, <<>>)
    /\ signedBy' = [signedBy EXCEPT ![s] = @ \cup {name}]
    /\ UNCHANGED dialog

\* The Combiner calling CombinePSKTs on the signed copies in the order args.
CombineSigned(args) ==
    /\ last.op # "Combine"
    /\ LET c == CombinePSKTs([k \in DOMAIN args |-> pskts[args[k]]])
       IN  last' = Op("Combine", args, c.err, c.out)
    /\ UNCHANGED <<pskts, signedBy, dialog>>

NextSign ==
    \/ \E s \in {"b", "c"} : \E name \in Signers : \E finalize \in BOOLEAN :
          CosignStep(s, name, finalize)
    \/ \E args \in {<<"b", "c">>, <<"c", "b">>} : CombineSigned(args)

SpecSign == InitSign /\ [][NextSign]_vars

-----------------------------------------------------------------------------
(* Joining: PSKTs over transactions of every version and lock time, with    *)
(* shared and with disjoint inputs, handed to joinpskts                      *)

\* The versions and lock times of the transactions joined; a version is an
\* int32_t and need not be positive.
JoinVersions == {-1, 0, 1, 2, 3}
JoinLockTimes == {0, 5}

\* The inputs and outputs of the transactions joined.
JoinShapes ==
    {[vin |-> <<In1>>, vout |-> <<Coin(4, "dest")>>],
     [vin |-> <<In3, In2>>, vout |-> <<Coin(3, "wsh_multi_1of2")>>],
     [vin |-> <<In1, In2>>, vout |-> <<>>]}

\* The PSKT p with data in every record: each input signed and finalized and
\* with a redeem script that tells its position, each output with a witness
\* script, and extended keys and unknown records at global scope, those of
\* the two fillings d overlapping in a key origin and in an unknown key.
JoinFilled(p, d) ==
    [p EXCEPT
       !.inputs = [i \in DOMAIN p.inputs |->
           [BlankInput EXCEPT !.partial_sigs = {<<"k1", d>>},
                              !.final_script_sig = <<d>>,
                              !.final_script_witness = <<"v1">>,
                              !.witness_utxo = Coin(5, d),
                              !.redeem_script = IF i = 1 THEN "v1" ELSE "v2"]],
       !.outputs = [i \in DOMAIN p.outputs |->
           [BlankOutput EXCEPT !.witness_script = d]],
       !.m_xpubs = IF d = "v1" THEN {<<"o1", {"x1"}>>}
                   ELSE {<<"o1", {"x2"}>>, <<"o2", {"x1"}>>},
       !.unknown = IF d = "v1" THEN {<<"k1", "v1">>}
                   ELSE {<<"k1", "v2">>, <<"k2", "v1">>}]

JoinOperands ==
    {BlankPskt([nVersion |-> v, vin |-> sh.vin, vout |-> sh.vout, nLockTime |-> l]) :
        sh \in JoinShapes, v \in JoinVersions, l \in JoinLockTimes}
    \cup {JoinFilled(BlankPskt([nVersion |-> 2, vin |-> sh.vin, vout |-> sh.vout,
                                nLockTime |-> 0]), d) :
             sh \in JoinShapes, d \in {"v1", "v2"}}

\* The request arrays joinpskts is called with.
JoinArgLists == {<<"a">>, <<"a", "a">>, <<"a", "b">>, <<"b", "a">>}

InitJoin ==
    /\ \E pa \in JoinOperands, pb \in JoinOperands :
          pskts = [s \in Slots |->
                     CASE s = "a" -> pa [] s = "b" -> pb [] OTHER -> Fresh]
    /\ last = NoOp
    /\ signedBy = NoSigners
    /\ dialog = NoDialog

\* A call of the joinpskts RPC on the PSKTs of the slots named by txs, the
\* index lists being shuffled into any order.
JoinRpc(txs) ==
    /\ LET psktxs == [k \in DOMAIN txs |-> pskts[txs[k]]]
           merged_pskt == JoinMerged(psktxs).pskt
       IN  \E input_indices \in ShuffleOrders(Len(merged_pskt.tx.vin)) :
           \E output_indices \in ShuffleOrders(Len(merged_pskt.tx.vout)) :
              LET r == joinpskts(psktxs, input_indices, output_indices)
              IN  last' = Op("joinpskts", txs, r.error, r.result)
    /\ UNCHANGED <<pskts, signedBy, dialog>>

NextJoin == \E txs \in JoinArgLists : JoinRpc(txs)

SpecJoin == InitJoin /\ [][NextJoin]_vars

-----------------------------------------------------------------------------
(* The key/value codec.  An encoding is a sequence of items: the magic       *)
(* prefix, key/value records (a type, the key data, the value) and section   *)
(* separators.  A base64 text is the data it encodes, or no encoding at all. *)

Rec(t, key, val) == [t |-> t, key |-> key, val |-> val]

PSKT_MAGIC_BYTES == Rec("magic", <<>>, <<>>)
PSKT_SEPARATOR == Rec("sep", <<>>, <<>>)

\* The elements of a set in the order the container iterates them.
RECURSIVE SeqOf(_)
SeqOf(S) ==
    IF S = {} THEN <<>>
    ELSE LET x == CHOOSE y \in S : TRUE IN <<x>> \o SeqOf(S \ {x})

\* The record types of each section in type-code order, with the way the
\* attribute is laid out: one record ("single"), one record per map entry
\* ("map"), one record per member of each entry's set, keyed by the member
\* ("grouped"), one record per proprietary record ("prop").  The unknown
\* records come last.
GlobalSchedule ==
    << <<"tx", "single">>, <<"m_xpubs", "grouped">>, <<"m_version", "single">>,
       <<"m_proprietary", "prop">>, <<"unknown", "map">> >>

InputSchedule ==
    << <<"non_witness_utxo", "single">>, <<"witness_utxo", "single">>,
       <<"partial_sigs", "map">>, <<"sighash_type", "single">>,
       <<"redeem_script", "single">>, <<"witness_script", "single">>,
       <<"hd_keypaths", "map">>, <<"final_script_sig", "single">>,
       <<"final_script_witness", "single">>, <<"ripemd160_preimages", "map">>,
       <<"sha256_preimages", "map">>, <<"hash160_preimages", "map">>,
       <<"hash256_preimages", "map">>, <<"m_tap_key_sig", "single">>,
       <<"m_tap_script_sigs", "map">>, <<"m_tap_scripts", "grouped">>,
       <<"m_tap_bip32_paths", "map">>, <<"m_tap_internal_key", "single">>,
       <<"m_tap_merkle_root", "single">>, <<"m_proprietary", "prop">>,
       <<"unknown", "map">> >>

OutputSchedule ==
    << <<"redeem_script", "single">>, <<"witness_script", "single">>,
       <<"hd_keypaths", "map">>, <<"m_tap_internal_key", "single">>,
       <<"m_tap_tree", "single">>, <<"m_tap_bip32_paths", "map">>,
       <<"m_proprietary", "prop">>, <<"unknown", "map">> >>

\* The attribute f with value v is absent.
Absent(f, v) ==
    CASE f = "tx" -> FALSE
      [] f = "witness_utxo" -> TxOutIsNull(v)
      [] f \in {"redeem_script", "witness_script", "m_tap_key_sig",
                "m_tap_internal_key", "m_tap_merkle_root"} -> v = ""
      [] OTHER -> v = <<>>

\* The records written for attribute f of value v.
EncodeField(f, kind, v) ==
    CASE kind = "single" -> IF Absent(f, v) THEN <<>> ELSE <<Rec(f, <<>>, v)>>
      [] kind = "map" -> SeqOf({Rec(f, e[1], e[2]) : e \in v})
      [] kind = "grouped" -> SeqOf(UNION {{Rec(f, c, e[1]) : c \in e[2]} : e \in v})
      [] OTHER -> SeqOf({Rec(f, <<e.identifier, e.subtype, e.key>>, e.value) : e \in v})

\* A section: the records of its attributes from position k of the schedule
\* on, then the separator.
RECURSIVE EncodeSection(_, _, _)
EncodeSection(rec, schedule, k) ==
    IF k > Len(schedule) THEN <<PSKT_SEPARATOR>>
    ELSE EncodeField(schedule[k][1], schedule[k][2], rec[schedule[k][1]])
         \o EncodeSection(rec, schedule, k + 1)

\* The sections of the records recs from record i on.
RECURSIVE EncodeSections(_, _, _)
EncodeSections(recs, schedule, i) ==
    IF i > Len(recs) THEN <<>>
    ELSE EncodeSection(recs[i], schedule, 1) \o EncodeSections(recs, schedule, i + 1)

\* A serializer that leaves the unknown records of the inputs out.
Serialize_NoUnknown(pskt) ==
    <<PSKT_MAGIC_BYTES>> \o EncodeSection(pskt, GlobalSchedule, 1)
    \o EncodeSections([i \in DOMAIN pskt.inputs |->
                          [pskt.inputs[i] EXCEPT !.unknown = {}]], InputSchedule, 1)
    \o EncodeSections(pskt.outputs, OutputSchedule, 1)

\* PartiallySignedTransaction::Serialize: the magic prefix, the global
\* section, one section per input and one per output.
Serialize(pskt) ==
    <<PSKT_MAGIC_BYTES>> \o EncodeSection(pskt, GlobalSchedule, 1)
    \o EncodeSections(pskt.inputs, InputSchedule, 1)
    \o EncodeSections(pskt.outputs, OutputSchedule, 1)

\* The position of the first separator at or after position from, 0 when
\* there is none.
RECURSIVE SectionEnd(_, _)
SectionEnd(bytes, from) ==
    IF from > Len(bytes) THEN 0
    ELSE IF bytes[from].t = "sep" THEN from
    ELSE SectionEnd(bytes, from + 1)

\* A section and the sections split off after it.
SplitJoin(section, r) ==
    [ok |-> r.ok, sections |-> <<section>> \o r.sections, next |-> r.next]

\* The next n sections from position from on: [ok, sections, next], ok false
\* when the data ends before the n-th separator; SplitAt is the same with the
\* position e of the first separator found.
RECURSIVE SplitSections(_, _, _)
RECURSIVE SplitAt(_, _, _, _)
SplitAt(bytes, from, n, e) ==
    IF e = 0 THEN [ok |-> FALSE, sections |-> <<>>, next |-> from]
    ELSE SplitJoin(SubSeq(bytes, from, e - 1), SplitSections(bytes, e + 1, n - 1))

SplitSections(bytes, from, n) ==
    IF n = 0 THEN [ok |-> TRUE, sections |-> <<>>, next |-> from]
    ELSE SplitAt(bytes, from, n, SectionEnd(bytes, from))

\* Two records of the section have the same type and key data.
HasDuplicateKey(recs) ==
    \E i, j \in DOMAIN recs : i < j /\ recs[i].t = recs[j].t /\ recs[i].key = recs[j].key

KnownTypes(schedule) == {schedule[k][1] : k \in DOMAIN schedule} \ {"unknown"}

\* The positions of the records that make up attribute f: those of its type,
\* and for unknown those of a type the schedule does not list.
RecordsOf(recs, schedule, f) ==
    IF f = "unknown"
    THEN {i \in DOMAIN recs : recs[i].t \notin KnownTypes(schedule)}
    ELSE {i \in DOMAIN recs : recs[i].t = f}

\* The value of an attribute read from the records at positions idx, blank
\* when there is none.
DecodeField(recs, idx, kind, blank) ==
    CASE kind = "single" ->
            IF idx = {} THEN blank ELSE recs[CHOOSE i \in idx : TRUE].val
      [] kind = "map" -> {<<recs[i].key, recs[i].val>> : i \in idx}
      [] kind = "grouped" ->
            {<<v, {recs[i].key : i \in {j \in idx : recs[j].val = v}}>> :
                v \in {recs[i].val : i \in idx}}
      [] OTHER ->
            {[identifier |-> recs[i].key[1], subtype |-> recs[i].key[2],
              key |-> recs[i].key[3], value |-> recs[i].val] : i \in idx}

\* The record a section decodes to.
DecodeSection(recs, schedule, blank) ==
    [f \in DOMAIN blank |->
        LET k == CHOOSE n \in DOMAIN schedule : schedule[n][1] = f
        IN  DecodeField(recs, RecordsOf(recs, schedule, f), schedule[k][2], blank[f])]

NoPskt == [ok |-> FALSE, error |-> "", pskt |-> <<>>, rest |-> <<>>]

\* Unserialize once the global section g is read and the sections of the
\* inputs and outputs are split off (split).
Unserialize_Sections(bytes, g, split) ==
    IF ~split.ok
    THEN [NoPskt EXCEPT !.error = "SectionCountMismatch"]
    ELSE IF \E k \in DOMAIN split.sections : HasDuplicateKey(split.sections[k])
    THEN [NoPskt EXCEPT !.error = "DuplicateKey"]
    ELSE [ok |-> TRUE, error |-> "",
          pskt |-> <<[tx            |-> g.tx,
                      inputs        |-> [i \in 1..Len(g.tx.vin) |->
                           DecodeSection(split.sections[i], InputSchedule, BlankInput)],
                      outputs       |-> [i \in 1..Len(g.tx.vout) |->
                           DecodeSection(split.sections[Len(g.tx.vin) + i],
                                         OutputSchedule, BlankOutput)],
                      m_xpubs       |-> g.m_xpubs,
                      m_version     |-> g.m_version,
                      m_proprietary |-> g.m_proprietary,
                      unknown       |-> g.unknown]>>,
          rest |-> SubSeq(bytes, split.next, Len(bytes))]

\* Unserialize once the global section is decoded to g, the sections of the
\* inputs and outputs starting at position next.
Unserialize_Decoded(bytes, next, g) ==
    Unserialize_Sections(bytes, g,
        SplitSections(bytes, next, Len(g.tx.vin) + Len(g.tx.vout)))

\* The global attributes before any record is read.
BlankGlobal ==
    [tx |-> EmptyTx, m_xpubs |-> {}, m_version |-> <<>>, m_proprietary |-> {},
     unknown |-> {}]

\* Unserialize once the global section is split off (head).
Unserialize_Global(bytes, head) ==
    IF ~head.ok
    THEN [NoPskt EXCEPT !.error = "Truncated"]
    ELSE IF HasDuplicateKey(head.sections[1])
    THEN [NoPskt EXCEPT !.error = "DuplicateKey"]
    ELSE IF RecordsOf(head.sections[1], GlobalSchedule, "tx") = {}
    THEN [NoPskt EXCEPT !.error = "InvalidTypeValue"]
    ELSE Unserialize_Decoded(bytes, head.next,
             DecodeSection(head.sections[1], GlobalSchedule, BlankGlobal))

\* PartiallySignedTransaction::Unserialize: [ok, error, pskt, rest], rest
\* being what is left of the data after the last section.
Unserialize(bytes) ==
    IF Len(bytes) = 0 \/ bytes[1].t # "magic"
    THEN [NoPskt EXCEPT !.error = "BadMagic"]
    ELSE Unserialize_Global(bytes, SplitSections(bytes, 2, 1))

\* A DecodeRawPSKT that takes an emptied stream for extra data.
DecodeRawPSKT_Read_Inverted(u) ==
    IF ~u.ok THEN [ok |-> FALSE, error |-> u.error, pskt |-> <<>>]
    ELSE IF u.rest = <<>>
    THEN [ok |-> FALSE, error |-> "extra data after PSKT", pskt |-> u.pskt]
    ELSE [ok |-> TRUE, error |-> "", pskt |-> u.pskt]

\* DecodeRawPSKT once the stream is read, u being what Unserialize gave:
\* [ok, error, pskt].
DecodeRawPSKT_Read(u) ==
    IF ~u.ok THEN [ok |-> FALSE, error |-> u.error, pskt |-> <<>>]
    ELSE IF u.rest # <<>>
    THEN [ok |-> FALSE, error |-> "extra data after PSKT", pskt |-> u.pskt]
    ELSE [ok |-> TRUE, error |-> "", pskt |-> u.pskt]

\* DecodeRawPSKT
DecodeRawPSKT(tx_data) == DecodeRawPSKT_Read(Unserialize(tx_data))

\* EncodeBase64 and DecodeBase64: a text is valid base64 of its data or no
\* base64 at all; the decoded data is <<data>>, <<>> for std::nullopt.
EncodeBase64(data) == [valid |-> TRUE, data |-> data]
DecodeBase64(text) == IF text.valid THEN <<text.data>> ELSE <<>>
NotBase64 == [valid |-> FALSE, data |-> <<>>]

\* DecodeBase64PSKT on the text itself.
DecodeBase64PSKT_Text(base64_tx) ==
    IF DecodeBase64(base64_tx) = <<>>
    THEN [ok |-> FALSE, error |-> "invalid base64", pskt |-> <<>>]
    ELSE DecodeRawPSKT(DecodeBase64(base64_tx)[1])

\* PSKTOperationsDialog::copyToClipboard: the text put on the clipboard.
copyToClipboard(m_transaction_data) == EncodeBase64(Serialize(m_transaction_data))

-----------------------------------------------------------------------------
(* Single records: PSKTs as a decoder can deliver them, with one input left  *)
(* as it is or given a final scriptSig or witness and one more attribute set *)
(* to any value of its domain, and the operations applied to copies of them  *)

FinalCells == {<<"in", 1, "final_script_sig">>, <<"in", 1, "final_script_witness">>}

RecordOperands ==
    UNION {{Put(Put(PartiallySignedTransaction(TxA), cell, v), fc, fv) :
                v \in CellValues(cell), fc \in FinalCells, fv \in Stacks} :
           cell \in Cells}

InitRecords ==
    /\ \E p \in RecordOperands :
          pskts = [s \in Slots |-> IF s = "a" THEN p ELSE Fresh]
    /\ last = NoOp
    /\ signedBy = NoSigners
    /\ dialog = NoDialog

\* PSKTInputSigned and IsNull on input i of the PSKT of slot s.
IsNullStep(s, i) ==
    /\ last.op = "none"
    /\ last' = Op("IsNull", <<s, i, PSKTInputSigned(pskts[s].inputs[i])>>,
                  PSKTInput_IsNull(pskts[s].inputs[i]), <<>>)
    /\ UNCHANGED <<pskts, signedBy, dialog>>

\* The sighash types a signer is called with.
SighashTypes == {SIGHASH_ALL, 2}

\* SignPSKTInput on input i of a copy of the PSKT of slot s, with the
\* provider of a party, txdata computed or null, any sighash type and
\* finalize set or not.
SignApply(s, i, name, precomputed, sighash, finalize) ==
    /\ last.op = "none"
    /\ LET r == SignPSKTInput(Provider(name), pskts[s], i,
                    IF precomputed THEN <<PrecomputePSKTData(pskts[s])>> ELSE <<>>,
                    sighash, finalize)
       IN  last' = Op("SignPSKTInput", <<s, i, name, precomputed, sighash, finalize>>,
                      r.ret, <<r.pskt>>)
    /\ UNCHANGED <<pskts, signedBy, dialog>>

\* What happens to an encoding on its way: nothing, data appended, the end
\* cut off, the magic prefix lost, a record repeated, or (a text) characters
\* that are no base64.
Damages == {"none", "extra", "cut", "no_magic", "duplicate", "bad_base64"}

Damage(bytes, d) ==
    CASE d = "extra"     -> bytes \o <<Rec("unknown", "k9", "v9")>>
      [] d = "cut"       -> SubSeq(bytes, 1, Len(bytes) - 1)
      [] d = "no_magic"  -> Tail(bytes)
      [] d = "duplicate" -> <<bytes[1], bytes[2]>> \o Tail(bytes)
      [] OTHER           -> bytes

\* The PSKT of slot s is serialized and, damaged or not, decoded from the raw
\* data.
DecodeRawStep(s, damage) ==
    /\ last.op = "none"
    /\ damage # "bad_base64"
    /\ LET r == DecodeRawPSKT(Damage(Serialize(pskts[s]), damage))
       IN  last' = Op("Decode", <<s, "raw", damage>>, r.ok, <<r.error, r.pskt>>)
    /\ UNCHANGED <<pskts, signedBy, dialog>>

\* The PSKT of slot s is copied to the clipboard as base64 and, damaged or
\* not, decoded from the text.
DecodeBase64Step(s, damage) ==
    /\ last.op = "none"
    /\ LET r == DecodeBase64PSKT_Text(
                    IF damage = "bad_base64" THEN NotBase64
                    ELSE IF damage = "none" THEN copyToClipboard(pskts[s])
                    ELSE EncodeBase64(Damage(Serialize(pskts[s]), damage)))
       IN  last' = Op("Decode", <<s, "base64", damage>>, r.ok, <<r.error, r.pskt>>)
    /\ UNCHANGED <<pskts, signedBy, dialog>>

\* The signature data handed to FromSignatureData: complete or not, with or
\* without a scriptSig, a witness, a signature and a redeem script.
SigDatas ==
    {[BlankSigData EXCEPT !.complete = c, !.scriptSig = ss, !.scriptWitness = sw,
                          !.signatures = sigs, !.redeem_script = rs] :
        c \in BOOLEAN, ss \in Stacks, sw \in {<<>>, <<"v1">>},
        sigs \in {{}, {<<"k2", "v2">>}}, rs \in {"", "v2"}}

\* FillSignatureData of input i of the PSKT of slot s on a fresh
\* SignatureData.
FillStep(s, i) ==
    /\ last.op = "none"
    /\ last' = Op("FillSignatureData", <<s, i>>, TRUE,
                  <<PSKTInput_FillSignatureData(pskts[s].inputs[i])>>)
    /\ UNCHANGED <<pskts, signedBy, dialog>>

\* FromSignatureData on a copy of input i of the PSKT of slot s.
FromStep(s, i, sigdata) ==
    /\ last.op = "none"
    /\ last' = Op("FromSignatureData", <<s, i, sigdata>>, TRUE,
                  <<PSKTInput_FromSignatureData(pskts[s].inputs[i], sigdata)>>)
    /\ UNCHANGED <<pskts, signedBy, dialog>>

NextRecords ==
    \/ \E i \in 1..Len(TxA.vin) : IsNullStep("a", i)
    \/ \E i \in 1..Len(TxA.vin) : FillStep("a", i)
    \/ \E i \in 1..Len(TxA.vin) : \E sigdata \in SigDatas : FromStep("a", i, sigdata)
    \/ \E damage \in Damages : DecodeRawStep("a", damage)
    \/ \E damage \in Damages : DecodeBase64Step("a", damage)
    \/ \E i \in 1..Len(TxA.vin) : \E name \in Signers \cup {"Watcher"} :
          \E precomputed \in BOOLEAN : \E sighash \in SighashTypes :
             \E finalize \in BOOLEAN :
                SignApply("a", i, name, precomputed, sighash, finalize)

SpecRecords == InitRecords /\ [][NextRecords]_vars

-----------------------------------------------------------------------------
(* Properties of the merge algebra, checked under SpecMerge *)

SameTxid(p, q) == GetHash(p.tx) = GetHash(q.tx)

\* Two first-writer-wins values do not conflict: one is empty or they are equal.
ScalarAgree(x, y, empty) == x = empty \/ y = empty \/ x = y

\* Two maps do not conflict: a key both hold has the same value in both.
MapAgree(m, n) == IsMap(m \cup n)

InputsAgree(x, y) ==
    /\ ScalarAgree(x.non_witness_utxo, y.non_witness_utxo, <<>>)
    /\ (TxOutIsNull(x.witness_utxo) = TxOutIsNull(y.witness_utxo)
          => x.witness_utxo = y.witness_utxo)
    /\ \A f \in {"partial_sigs", "ripemd160_preimages", "sha256_preimages",
                 "hash160_preimages", "hash256_preimages", "hd_keypaths",
                 "unknown", "m_tap_script_sigs", "m_tap_scripts",
                 "m_tap_bip32_paths"} : MapAgree(x[f], y[f])
    /\ \A f \in {"redeem_script", "witness_script", "m_tap_key_sig",
                 "m_tap_internal_key", "m_tap_merkle_root"} :
          ScalarAgree(x[f], y[f], "")
    /\ \A f \in {"final_script_sig", "final_script_witness"} :
          ScalarAgree(x[f], y[f], <<>>)
    /\ x.sighash_type = y.sighash_type
    /\ x.m_proprietary = y.m_proprietary

OutputsAgree(x, y) ==
    /\ \A f \in {"hd_keypaths", "unknown", "m_tap_bip32_paths"} : MapAgree(x[f], y[f])
    /\ \A f \in {"redeem_script", "witness_script", "m_tap_internal_key"} :
          ScalarAgree(x[f], y[f], "")
    /\ ScalarAgree(x.m_tap_tree, y.m_tap_tree, <<>>)
    /\ x.m_proprietary = y.m_proprietary

\* p and q, over the same transaction, hold no conflicting data: every
\* first-writer-wins field both set and every map key both hold has the same
\* value in both, and the fields Merge does not combine (sighash_type, the
\* proprietary records, the PSKT version) are equal.
PSKTsAgree(p, q) ==
    /\ \A i \in DOMAIN p.inputs : InputsAgree(p.inputs[i], q.inputs[i])
    /\ \A i \in DOMAIN p.outputs : OutputsAgree(p.outputs[i], q.outputs[i])
    /\ MapAgree(p.unknown, q.unknown)
    /\ p.m_version = q.m_version
    /\ p.m_proprietary = q.m_proprietary

\* C1 as stated: for any two PSKTs a and b over the same unsigned transaction,
\* Merge(a, b) and Merge(b, a) yield equal PSKTs.
C1_MergeCommutative ==
    (last.op = "Merge" /\ last.args = <<"a", "b">> /\ last.ret)
        => last.out = Merge(pskts["b"], pskts["a"]).pskt

\* C1 amended: Merge(a, b) and Merge(b, a) yield equal PSKTs for any two PSKTs
\* over the same unsigned transaction that hold no conflicting data.
C1_MergeCommutativeWhenAgreeing ==
    (last.op = "Merge" /\ last.args = <<"a", "b">> /\ last.ret
       /\ PSKTsAgree(pskts["a"], pskts["b"]))
        => /\ Merge(pskts["b"], pskts["a"]).ret
           /\ last.out = Merge(pskts["b"], pskts["a"]).pskt

\* A merge of two agreeing PSKTs where one holds data the other lacks.
C1_Witness ==
    /\ last.op = "Merge" /\ last.args = <<"a", "b">> /\ last.ret
    /\ PSKTsAgree(pskts["a"], pskts["b"])
    /\ pskts["a"].inputs[1].partial_sigs = {<<"k1", "v1">>}
    /\ pskts["b"].inputs[1].partial_sigs = {<<"k2", "v1">>}
    /\ Cardinality(last.out.inputs[1].partial_sigs) = 2

\* C3: Merge(a, b) returns true iff the two unsigned transactions have the same
\* txid, and a PSKT over a different transaction is never merged in: on false
\* the PSKT is as it was.
C3_MergeIffSameTxid ==
    last.op = "Merge" =>
        /\ last.ret <=> SameTxid(pskts[last.args[1]], pskts[last.args[2]])
        /\ ~last.ret => last.out = pskts[last.args[1]]

\* A Merge refused because the transactions differ, the operand holding data.
C3_Witness ==
    /\ last.op = "Merge" /\ ~last.ret
    /\ pskts["a"].tx # pskts["b"].tx
    /\ pskts["b"].inputs[2].witness_script # ""

\* The left fold of Merge over a list of one to three PSKTs.
LeftFold(ps) ==
    CASE Len(ps) = 1 -> ps[1]
      [] Len(ps) = 2 -> Merge(ps[1], ps[2]).pskt
      [] Len(ps) = 3 -> Merge(Merge(ps[1], ps[2]).pskt, ps[3]).pskt

\* C4: CombinePSKTs returns PSKT_MISMATCH iff some PSKT of the list has a txid
\* different from the first one's, otherwise OK with out the left fold of Merge;
\* combinepskt turns the mismatch into an error and returns no PSKT.
C4_CombineMismatch ==
    /\ last.op = "Combine" =>
         LET ps == [k \in DOMAIN last.args |-> pskts[last.args[k]]]
             mismatch == \E k \in DOMAIN ps : ~SameTxid(ps[k], ps[1])
         IN  /\ last.ret = "PSKT_MISMATCH" <=> mismatch
             /\ last.ret = "OK" <=> ~mismatch
             /\ ~mismatch => last.out = LeftFold(ps)
    /\ (last.op = "combinepskt" /\ last.args # <<>>
          /\ \A k \in DOMAIN last.args : last.args[k] \in Slots) =>
         LET ps == [k \in DOMAIN last.args |-> pskts[last.args[k]]]
             mismatch == \E k \in DOMAIN ps : ~SameTxid(ps[k], ps[1])
         IN  /\ mismatch => last.ret = "PSKT_MISMATCH" /\ last.out = <<>>
             /\ ~mismatch => last.ret = "" /\ last.out = <<LeftFold(ps)>>

\* combinepskt failing on a list whose third PSKT is over another transaction.
C4_Witness ==
    /\ last.op = "combinepskt" /\ last.args = <<"a", "b", "c">>
    /\ last.ret = "PSKT_MISMATCH" /\ last.out = <<>>
    /\ SameTxid(pskts["a"], pskts["b"]) /\ ~SameTxid(pskts["a"], pskts["c"])

\* C5: Merge(a, a) succeeds and leaves a as it was, and CombinePSKTs over
\* [a, a] yields a.
C5_MergeIdempotent ==
    /\ (last.op = "Merge" /\ last.args = <<"a", "a">>)
          => last.ret /\ last.out = pskts["a"]
    /\ (last.op = "Combine" /\ last.args = <<"a", "a">>)
          => last.ret = "OK" /\ last.out = pskts["a"]

\* A PSKT holding a witness script merged with itself.
C5_Witness ==
    /\ last.op = "Merge" /\ last.args = <<"a", "a">> /\ last.ret
    /\ pskts["a"].inputs[1].witness_script = "v1"

\* C6: for a, b, c over the same unsigned transaction, combining [a, b, c],
\* [combine([a, b]), c] and [a, combine([b, c])] gives the same PSKT.
C6_CombineAssociative ==
    (last.op = "Combine" /\ last.args = <<"a", "b", "c">>
       /\ SameTxid(pskts["a"], pskts["b"]) /\ SameTxid(pskts["a"], pskts["c"]))
        => LET ab  == CombinePSKTs(<<pskts["a"], pskts["b"]>>)
               bc  == CombinePSKTs(<<pskts["b"], pskts["c"]>>)
               abc == CombinePSKTs(<<ab.out, pskts["c"]>>)
               acb == CombinePSKTs(<<pskts["a"], bc.out>>)
           IN  /\ last.ret = "OK" /\ ab.err = "OK" /\ bc.err = "OK"
               /\ abc.err = "OK" /\ acb.err = "OK"
               /\ last.out = abc.out
               /\ last.out = acb.out

\* Three PSKTs over one transaction with three different values of one field.
C6_Witness ==
    /\ last.op = "Combine" /\ last.args = <<"a", "b", "c">> /\ last.ret = "OK"
    /\ pskts["a"].inputs[1].redeem_script = ""
    /\ pskts["b"].inputs[1].redeem_script = "v1"
    /\ pskts["c"].inputs[1].redeem_script = "v2"
    /\ last.out.inputs[1].redeem_script = "v1"

-----------------------------------------------------------------------------
(* Properties of parallel signing, checked under SpecSign *)

\* The keys of the multisig script input i of p spends, <<>> when it spends
\* no multisig script.
MultisigKeys(p, i) ==
    LET u == GetInputUTXO(p, i)
        sol == IF u.ret THEN Solver(u.utxo.scriptPubKey) ELSE Solver("")
    IN  IF sol.type = "WITNESS_V0_SCRIPTHASH" THEN Solver(sol.inner).keys ELSE <<>>

\* Slots b and c hold copies of the PSKT of slot a signed by two different
\* signers, one each.
SignedApart ==
    /\ Cardinality(signedBy["b"]) = 1
    /\ Cardinality(signedBy["c"]) = 1
    /\ signedBy["b"] # signedBy["c"]

\* C2 as stated: CombinePSKTs over the copies signed by independent signers
\* yields the same PSKT in either order, and a multisig input whose keys the
\* two signers hold has both partial signatures in the combined PSKT.
C2_CombineAnyOrder ==
    (last.op = "Combine" /\ last.args = <<"b", "c">> /\ SignedApart)
        => /\ last.ret = "OK"
           /\ last.out = CombinePSKTs(<<pskts["c"], pskts["b"]>>).out
           /\ \A i \in DOMAIN last.out.inputs :
                MultisigKeys(pskts["a"], i) # <<>> =>
                    MapKeys(last.out.inputs[i].partial_sigs) = {"k1", "k2"}

\* C2 amended: CombinePSKTs over the copies signed by independent signers
\* yields the same PSKT in either order when the copies hold no conflicting
\* data, which is so unless two signers finalized the same input; and a
\* multisig input whose keys the two signers hold, finalized in neither copy,
\* has both partial signatures in the combined PSKT.
C2_CombineAnyOrderWhenAgreeing ==
    (last.op = "Combine" /\ last.args = <<"b", "c">> /\ SignedApart)
        => /\ last.ret = "OK"
           /\ PSKTsAgree(pskts["b"], pskts["c"]) =>
                last.out = CombinePSKTs(<<pskts["c"], pskts["b"]>>).out
           /\ (\A i \in DOMAIN pskts["b"].inputs :
                  ~(PSKTInputSigned(pskts["b"].inputs[i])
                      /\ PSKTInputSigned(pskts["c"].inputs[i])))
                => PSKTsAgree(pskts["b"], pskts["c"])
           /\ \A i \in DOMAIN last.out.inputs :
                (/\ MultisigKeys(pskts["a"], i) # <<>>
                 /\ ~PSKTInputSigned(pskts["b"].inputs[i])
                 /\ ~PSKTInputSigned(pskts["c"].inputs[i]))
                    => MapKeys(last.out.inputs[i].partial_sigs) = {"k1", "k2"}

\* The two cosigners of a 2-of-2 input signed their copies and the combined
\* input holds both signatures.
C2_Witness ==
    /\ last.op = "Combine" /\ last.args = <<"b", "c">> /\ SignedApart
    /\ MultisigKeys(pskts["a"], 1) # <<>>
    /\ MapKeys(pskts["b"].inputs[1].partial_sigs) = {"k1"}
    /\ MapKeys(pskts["c"].inputs[1].partial_sigs) = {"k2"}
    /\ MapKeys(last.out.inputs[1].partial_sigs) = {"k1", "k2"}

-----------------------------------------------------------------------------
(* Properties of the workflow, checked under Spec *)

\* C7: in every PSKT made by the constructor, createpskt, converttopskt or
\* joinpskts and worked on by AddInput, AddOutput, Merge, SignPSKTInput,
\* UpdatePSKTOutput and FinalizePSKT there is one input record per input and
\* one output record per output of the transaction.
C7_ParallelVectors ==
    \A s \in Slots :
        /\ Len(pskts[s].inputs) = Len(pskts[s].tx.vin)
        /\ Len(pskts[s].outputs) = Len(pskts[s].tx.vout)

\* A joined PSKT of two inputs and one output, finalized afterwards.
C7_Witness ==
    /\ last.op = "FinalizePSKT"
    /\ Len(pskts["a"].tx.vin) = 2 /\ Len(pskts["a"].tx.vout) = 1
    /\ \E i \in DOMAIN pskts["a"].tx.vin : pskts["a"].tx.vin[i] = In3

\* C8: AddInput returns false whenever the transaction already has an input
\* spending the same outpoint; otherwise it appends txin to vin and exactly
\* one record to inputs and returns true.
C8_AddInputDuplicate ==
    [][last'.op = "AddInput" =>
         LET txin == last'.args[1]
             p == pskts["a"]
             q == pskts'["a"]
         IN  IF \E i \in DOMAIN p.tx.vin : p.tx.vin[i].prevout = txin.prevout
             THEN last'.ret = FALSE /\ q.tx.vin = p.tx.vin /\ q.inputs = p.inputs
             ELSE /\ last'.ret = TRUE
                  /\ q.tx.vin = Append(p.tx.vin, txin)
                  /\ Len(q.inputs) = Len(p.inputs) + 1
                  /\ SubSeq(q.inputs, 1, Len(p.inputs)) = p.inputs]_vars

\* AddInput refused an input that spends an outpoint already spent by the
\* transaction, with another sequence number.
C8_Witness ==
    /\ last.op = "AddInput" /\ last.ret = FALSE
    /\ \E i \in DOMAIN pskts["a"].tx.vin :
          /\ pskts["a"].tx.vin[i].prevout = last.args[1].prevout
          /\ pskts["a"].tx.vin[i] # last.args[1]

\* C9: FinalizePSKT returns true iff after the call every input is finalized
\* (a non-empty final_script_sig or a non-null final_script_witness), that is
\* iff CountPSKTUnsignedInputs is 0.
C9_FinalizeIffAllFinal ==
    last.op = "FinalizePSKT" =>
        /\ last.ret <=> \A i \in DOMAIN pskts["a"].inputs :
              \/ pskts["a"].inputs[i].final_script_sig # <<>>
              \/ pskts["a"].inputs[i].final_script_witness # <<>>
        /\ last.ret <=> CountPSKTUnsignedInputs(pskts["a"]) = 0

\* FinalizePSKT returned false on a PSKT with one input finalized and one not.
C9_Witness ==
    /\ last.op = "FinalizePSKT" /\ last.ret = FALSE
    /\ Len(pskts["a"].inputs) = 2
    /\ CountPSKTUnsignedInputs(pskts["a"]) = 1

\* C10: FinalizeAndExtractPSKT returns false and produces no transaction when
\* the PSKT is not complete; when it returns true the i-th input of the result
\* carries final_script_sig and final_script_witness of the i-th input record,
\* and the outputs, version, lock time, prevouts and sequences of the result
\* are those of the unsigned transaction.
C10_Extract ==
    last.op = "FinalizeAndExtractPSKT" =>
        LET p == pskts["a"]
            result == last.out[1]
        IN  /\ last.ret <=> CountPSKTUnsignedInputs(p) = 0
            /\ ~last.ret => result = EmptyTx
            /\ last.ret =>
                 /\ Len(result.vin) = Len(p.tx.vin)
                 /\ \A i \in DOMAIN result.vin :
                      /\ result.vin[i].scriptSig = p.inputs[i].final_script_sig
                      /\ result.vin[i].scriptWitness = p.inputs[i].final_script_witness
                      /\ result.vin[i].prevout = p.tx.vin[i].prevout
                      /\ result.vin[i].nSequence = p.tx.vin[i].nSequence
                 /\ result.vout = p.tx.vout
                 /\ result.nVersion = p.tx.nVersion
                 /\ result.nLockTime = p.tx.nLockTime

\* A transaction extracted from a PSKT of two inputs, one finalized with a
\* scriptSig and one with a witness.
C10_Witness ==
    /\ last.op = "FinalizeAndExtractPSKT" /\ last.ret = TRUE
    /\ Len(last.out[1].vin) = 2
    /\ \E i \in 1..2 : last.out[1].vin[i].scriptSig # <<>>
    /\ \E i \in 1..2 : last.out[1].vin[i].scriptWitness # <<>>


\* The transaction has an input with a scriptSig or a witness.
HasSigData(tx) ==
    \E i \in DOMAIN tx.vin : tx.vin[i].scriptSig # <<>> \/ tx.vin[i].scriptWitness # <<>>

-----------------------------------------------------------------------------
(* Finalization, signing and UTXO lookup on PSKTs of every shape *)

\* C11: finalization is idempotent: FinalizePSKT run again on the PSKT that
\* FinalizePSKT has left changes nothing in it and returns the same
\* completeness value.
C11_FinalizeIdempotent ==
    last.op = "FinalizePSKT" =>
        FinalizePSKT(pskts["a"]) = [ret |-> last.ret, pskt |-> pskts["a"]]

\* FinalizePSKT has finalized an input spent through its witness UTXO alone.
C11_Witness ==
    /\ last.op = "FinalizePSKT" /\ last.ret = TRUE
    /\ \E i \in DOMAIN pskts["a"].inputs :
          /\ pskts["a"].inputs[i].final_script_witness # <<>>
          /\ pskts["a"].inputs[i].non_witness_utxo = <<>>

\* The input is known through witness_utxo alone and is not finalized yet:
\* SignPSKTInput sets require_witness_sig.
RequireWitnessSig(pskt, i) ==
    /\ ~PSKTInputSigned(pskt.inputs[i])
    /\ pskt.inputs[i].non_witness_utxo = <<>>
    /\ ~TxOutIsNull(pskt.inputs[i].witness_utxo)

WitnessProgram(script) ==
    Solver(script).type \in {"WITNESS_V0_KEYHASH", "WITNESS_V0_SCRIPTHASH"}

\* C12: SignPSKTInput on an input not yet finalized whose spent output is
\* known through witness_utxo alone returns false and leaves the PSKT as it
\* was when the spent script takes no witness signature; whatever the script,
\* the input is changed only for a witness program and never gets a final
\* scriptSig.
C12_WitnessSigRequired ==
    [][last'.op = "SignPSKTInput" =>
         LET s == last'.args[1]
             i == last'.args[2]
         IN  RequireWitnessSig(pskts[s], i) =>
                /\ ~WitnessProgram(pskts[s].inputs[i].witness_utxo.scriptPubKey) =>
                      (last'.ret = FALSE /\ pskts' = pskts)
                /\ pskts'[s].inputs[i].final_script_sig = <<>>
                /\ pskts' # pskts =>
                      WitnessProgram(pskts[s].inputs[i].witness_utxo.scriptPubKey)]_vars

\* The signer holding the key of a pay-to-public-key-hash output was given
\* nothing but the witness UTXO, and SignPSKTInput has failed.
C12_Witness ==
    /\ last.op = "SignPSKTInput" /\ last.ret = FALSE /\ last.args[3] = "Signer1"
    /\ LET i == last.args[2]
       IN  /\ RequireWitnessSig(pskts["a"], i)
           /\ pskts["a"].inputs[i].witness_utxo.scriptPubKey = "pkh_k1"
           /\ pskts["a"].inputs[i].partial_sigs = {}

\* What ProduceSignature leaves in `witness` for input i under a provider.
ProducedWitness(provider, pskt, i) ==
    LET utxo == GetInputUTXO(pskt, i).utxo
    IN  ProduceSignature(provider,
            MutableTransactionSignatureCreator(pskt.tx, i, utxo.nValue, SIGHASH_ALL),
            utxo.scriptPubKey,
            [PSKTInput_FillSignatureData(pskt.inputs[i]) EXCEPT !.witness = FALSE]).witness

\* The errors of SignPSKTInput: the UTXO is missing or does not match the
\* prevout (hash or index), or a required witness signature was not made.
SignError(provider, pskt, i) ==
    /\ ~PSKTInputSigned(pskt.inputs[i])
    /\ \/ ~GetInputUTXO(pskt, i).ret
       \/ RequireWitnessSig(pskt, i) /\ ~ProducedWitness(provider, pskt, i)

\* C13: an operation that reports an error leaves the PSKT unchanged: Merge
\* that returns false, AddInput that returns false, and SignPSKTInput that
\* fails for a missing UTXO, a non_witness_utxo that does not match the
\* prevout or a required witness signature that was not produced.
C13_ErrorLeavesUnchanged ==
    [][/\ (last'.op = "Merge" /\ last'.ret = FALSE) => pskts' = pskts
       /\ (last'.op = "AddInput" /\ last'.ret = FALSE) => pskts' = pskts
       /\ last'.op = "SignPSKTInput" =>
             (SignError(Provider(last'.args[3]), pskts[last'.args[1]], last'.args[2])
                 => (last'.ret = FALSE /\ pskts' = pskts))]_vars

\* SignPSKTInput has failed on a non_witness_utxo that is not the transaction
\* the input spends from.
C13_Witness ==
    /\ last.op = "SignPSKTInput" /\ last.ret = FALSE
    /\ LET input == pskts["a"].inputs[last.args[2]]
           prevout == pskts["a"].tx.vin[last.args[2]].prevout
       IN  /\ input.non_witness_utxo # <<>>
           /\ GetHash(input.non_witness_utxo[1]) # prevout.hash
           /\ prevout.n < Len(input.non_witness_utxo[1].vout)

\* C14: GetInputUTXO returns output prevout.n of non_witness_utxo when that
\* is present, its hash is the prevout hash and prevout.n is one of its
\* outputs; returns witness_utxo when non_witness_utxo is absent and
\* witness_utxo is not null; and fails otherwise.
C14_GetInputUTXO ==
    last.op = "GetInputUTXO" =>
        LET input == pskts[last.args[1]].inputs[last.args[2]]
            prevout == pskts[last.args[1]].tx.vin[last.args[2]].prevout
        IN  IF /\ input.non_witness_utxo # <<>>
               /\ GetHash(input.non_witness_utxo[1]) = prevout.hash
               /\ prevout.n < Len(input.non_witness_utxo[1].vout)
            THEN /\ last.ret = TRUE
                 /\ last.out = <<input.non_witness_utxo[1].vout[prevout.n + 1]>>
            ELSE IF input.non_witness_utxo = <<>> /\ ~TxOutIsNull(input.witness_utxo)
            THEN last.ret = TRUE /\ last.out = <<input.witness_utxo>>
            ELSE last.ret = FALSE

\* GetInputUTXO has failed on a non_witness_utxo with another hash than the
\* prevout's.
C14_Witness ==
    /\ last.op = "GetInputUTXO" /\ last.ret = FALSE
    /\ LET input == pskts["a"].inputs[last.args[2]]
           prevout == pskts["a"].tx.vin[last.args[2]].prevout
       IN  /\ input.non_witness_utxo # <<>>
           /\ GetHash(input.non_witness_utxo[1]) # prevout.hash
           /\ prevout.n < Len(input.non_witness_utxo[1].vout)


-----------------------------------------------------------------------------
(* The analyzer's report *)

\* The analysis AnalyzePSKT has returned and the PSKT it was given.
Analysis == last.out[1]
Analyzed == pskts[last.args[1]]

LeastRole(roles) == CHOOSE r \in roles : \A q \in roles : r <= q

\* C15: for every analysis returned without an error the PSKT-wide next role
\* is the least of the inputs' next roles in the order CREATOR < UPDATER <
\* SIGNER < FINALIZER < EXTRACTOR (EXTRACTOR when there is no input) and is
\* greater than CREATOR; the assertion next > CREATOR never fails.
C15_NextIsLeastRole ==
    last.op = "AnalyzePSKT" =>
        /\ ~Analysis.aborted
        /\ Analysis.error = <<>> =>
              /\ Analysis.next = LeastRole({EXTRACTOR} \cup
                    {Analysis.inputs[i].next : i \in DOMAIN Analysis.inputs})
              /\ Analysis.next > CREATOR
              /\ Len(Analysis.inputs) = Len(Analyzed.tx.vin)
              /\ Analyzed.tx.vin = <<>> => Analysis.next = EXTRACTOR

\* An analysis of two inputs, the first of which is further on than the
\* second.
C15_Witness ==
    /\ last.op = "AnalyzePSKT" /\ Analysis.error = <<>>
    /\ Len(Analysis.inputs) = 2
    /\ Analysis.inputs[1].next > Analysis.inputs[2].next
    /\ Analysis.next = Analysis.inputs[2].next

\* C16: an input whose UTXO resolves is classified so: finalized gives
\* is_final and EXTRACTOR; not finalized and complete in a signing attempt
\* with the dummy provider gives FINALIZER; not complete with signatures the
\* only thing missing gives SIGNER; any other gives UPDATER.
C16_InputClassification ==
    (last.op = "AnalyzePSKT" /\ Analysis.error = <<>>) =>
        \A i \in DOMAIN Analyzed.inputs :
            GetInputUTXO(Analyzed, i).ret =>
               LET a == Analysis.inputs[i]
                   s == SignPSKTInput(DUMMY_SIGNING_PROVIDER, Analyzed, i,
                                      <<PrecomputePSKTData(Analyzed)>>, 1, TRUE)
                   m == s.out_sigdata
               IN  /\ a.has_utxo
                   /\ IF PSKTInputSigned(Analyzed.inputs[i])
                      THEN a.is_final /\ a.next = EXTRACTOR
                      ELSE /\ ~a.is_final
                           /\ a.next =
                                IF s.ret THEN FINALIZER
                                ELSE IF /\ m.missing_sigs # <<>>
                                        /\ m.missing_pubkeys = <<>>
                                        /\ m.missing_redeem_script = ""
                                        /\ m.missing_witness_script = ""
                                THEN SIGNER ELSE UPDATER

\* An analysis with an input for the signer and an input for the finalizer.
C16_Witness ==
    /\ last.op = "AnalyzePSKT" /\ Analysis.error = <<>>
    /\ \E i \in DOMAIN Analysis.inputs : Analysis.inputs[i].next = SIGNER
    /\ \E i \in DOMAIN Analysis.inputs : Analysis.inputs[i].next = FINALIZER

\* The sum of the UTXO values of the inputs before input i that resolve one.
RECURSIVE UtxoSumBefore(_, _)
UtxoSumBefore(pskt, i) ==
    IF i <= 1 THEN 0
    ELSE UtxoSumBefore(pskt, i - 1)
         + (IF GetInputUTXO(pskt, i - 1).ret
            THEN GetInputUTXO(pskt, i - 1).utxo.nValue ELSE 0)

\* The UTXO of input i resolves to an amount outside the money range, or one
\* that takes the running total outside it, or to an unspendable script.
BadUtxo(pskt, i) ==
    LET g == GetInputUTXO(pskt, i)
    IN  /\ g.ret
        /\ \/ ~MoneyRange(g.utxo.nValue)
           \/ ~MoneyRange(UtxoSumBefore(pskt, i) + g.utxo.nValue)
           \/ IsUnspendable(g.utxo.scriptPubKey)

HashMismatch(pskt, i) ==
    /\ pskt.inputs[i].non_witness_utxo # <<>>
    /\ GetHash(pskt.inputs[i].non_witness_utxo[1]) # pskt.tx.vin[i].prevout.hash

NoSuchOutput(pskt, i) ==
    /\ pskt.inputs[i].non_witness_utxo # <<>>
    /\ pskt.tx.vin[i].prevout.n >= Len(pskt.inputs[i].non_witness_utxo[1].vout)

\* Input i is malformed: its non_witness_utxo does not match the prevout
\* (hash or index) or its UTXO is bad.
InputMalformed(pskt, i) ==
    HashMismatch(pskt, i) \/ NoSuchOutput(pskt, i) \/ BadUtxo(pskt, i)

NoUtxo(pskt, i) ==
    pskt.inputs[i].non_witness_utxo = <<>> /\ TxOutIsNull(pskt.inputs[i].witness_utxo)

EstimatesAbsent(a) ==
    a.fee = <<>> /\ a.estimated_vsize = <<>> /\ a.estimated_feerate = <<>>

\* C17: a missing UTXO is data, not a failure: when some input has neither
\* UTXO form and no input is malformed, the analysis has an empty error, that
\* input has has_utxo = false, is_final = false and next = UPDATER, the
\* PSKT-wide next is UPDATER, and fee, estimated_vsize and estimated_feerate
\* are absent; so it is for a PSKT just created over a transaction with
\* inputs.
C17_MissingUtxoIsData ==
    (/\ last.op = "AnalyzePSKT"
     /\ \E i \in DOMAIN Analyzed.inputs : NoUtxo(Analyzed, i)
     /\ \A i \in DOMAIN Analyzed.inputs : ~InputMalformed(Analyzed, i)) =>
        /\ Analysis.error = <<>>
        /\ \A i \in DOMAIN Analyzed.inputs :
              NoUtxo(Analyzed, i) =>
                 /\ Analysis.inputs[i].has_utxo = FALSE
                 /\ Analysis.inputs[i].is_final = FALSE
                 /\ Analysis.inputs[i].next = UPDATER
        /\ Analysis.next = UPDATER
        /\ EstimatesAbsent(Analysis)

\* An analysis of a PSKT with one input that has its UTXO and is further on
\* than the updater, and one input without.
C17_Witness ==
    /\ last.op = "AnalyzePSKT" /\ Analysis.error = <<>>
    /\ Len(Analyzed.inputs) = 2
    /\ NoUtxo(Analyzed, 2)
    /\ Analysis.inputs[1].has_utxo /\ Analysis.inputs[1].next > UPDATER
    /\ Analysis.next = UPDATER /\ Analysis.fee = <<>>

Invalid(a) ==
    a.error # <<>> /\ a.next = CREATOR /\ EstimatesAbsent(a)

\* C18 as claimed: an input with a non_witness_utxo whose hash is not the
\* prevout hash, with a UTXO value outside the money range (or taking the
\* running total outside it) or with an unspendable spent script makes the
\* analysis invalid: error set, next = CREATOR, no fee and no estimates.
C18_MalformedIsFatal ==
    (/\ last.op = "AnalyzePSKT"
     /\ \E i \in DOMAIN Analyzed.inputs :
           HashMismatch(Analyzed, i) \/ BadUtxo(Analyzed, i)) =>
        Invalid(Analysis)

\* C18 as the code has it: an input with a non_witness_utxo that has no
\* output at the prevout index, with a UTXO value outside the money range
\* (or taking the running total outside it) or with an unspendable spent
\* script makes the analysis invalid; a non_witness_utxo whose hash alone
\* does not match is a missing UTXO (has_utxo = false, next = UPDATER) in
\* an analysis without error.
C18_FatalInputs ==
    last.op = "AnalyzePSKT" =>
        /\ (\E i \in DOMAIN Analyzed.inputs :
               NoSuchOutput(Analyzed, i) \/ BadUtxo(Analyzed, i)) =>
              Invalid(Analysis)
        /\ Analysis.error = <<>> =>
              \A i \in DOMAIN Analyzed.inputs :
                 HashMismatch(Analyzed, i) =>
                    /\ Analysis.inputs[i].has_utxo = FALSE
                    /\ Analysis.inputs[i].next = UPDATER

\* An analysis made invalid by the second input, which spends an output its
\* non_witness_utxo does not have or brings the total out of the money range.
C18_Witness ==
    /\ last.op = "AnalyzePSKT" /\ Invalid(Analysis)
    /\ Len(Analyzed.inputs) = 2
    /\ ~InputMalformed(Analyzed, 1)
    /\ NoSuchOutput(Analyzed, 2) \/ BadUtxo(Analyzed, 2)

\* Every partial signature of the PSKT is a signature by its key over its
\* input of the PSKT's transaction.
SignaturesValid(pskt) ==
    \A i \in DOMAIN pskt.inputs :
       \A e \in pskt.inputs[i].partial_sigs :
          CheckSig(MutableTransactionSignatureCreator(pskt.tx, i, 0, SIGHASH_ALL),
                   e[1], e[2])

\* C19 as claimed: signing never moves any PSKT backwards: after SignPSKTInput
\* with a signer's provider the PSKT-wide next role of the signed PSKT, and of
\* the signed PSKT combined with the one before in either order, is at least
\* the next role of the PSKT before.
C19_AnalyzerMonotone ==
    [][last'.op = "SignPSKTInput" =>
         LET before == pskts[last'.args[1]]
             signed == pskts'[last'.args[1]]
         IN  /\ AnalyzePSKT(before).next <= AnalyzePSKT(signed).next
             /\ AnalyzePSKT(before).next
                   <= AnalyzePSKT(CombinePSKTs(<<signed, before>>).out).next
             /\ AnalyzePSKT(before).next
                   <= AnalyzePSKT(CombinePSKTs(<<before, signed>>).out).next]_vars

\* C19: signing never moves backwards a PSKT whose partial signatures are all
\* valid for its transaction: after SignPSKTInput with a signer's provider the
\* PSKT-wide next role of the signed PSKT, and of the signed PSKT combined
\* with the one before in either order, is at least the next role of the
\* PSKT before.
C19_AnalyzerMonotoneOnValid ==
    [][(last'.op = "SignPSKTInput" /\ SignaturesValid(pskts[last'.args[1]])) =>
         LET before == pskts[last'.args[1]]
             signed == pskts'[last'.args[1]]
         IN  /\ AnalyzePSKT(before).next <= AnalyzePSKT(signed).next
             /\ AnalyzePSKT(before).next
                   <= AnalyzePSKT(CombinePSKTs(<<signed, before>>).out).next
             /\ AnalyzePSKT(before).next
                   <= AnalyzePSKT(CombinePSKTs(<<before, signed>>).out).next]_vars

\* A signer has signed an input of a two-input PSKT that holds a valid
\* partial signature, and the analyzer hands the PSKT to the finalizer.
C19_Witness ==
    /\ last.op = "SignPSKTInput" /\ last.ret = TRUE
    /\ Len(pskts["a"].inputs) = 2
    /\ SignaturesValid(pskts["a"])
    /\ AnalyzePSKT(pskts["a"]).next = FINALIZER
    /\ \E i \in 1..2 : pskts["a"].inputs[i].partial_sigs # {}

RECURSIVE OutSumFrom(_, _)
OutSumFrom(vout, k) ==
    IF k > Len(vout) THEN 0 ELSE vout[k].nValue + OutSumFrom(vout, k + 1)

AllUtxosResolve(pskt) == \A i \in DOMAIN pskt.inputs : GetInputUTXO(pskt, i).ret

\* C20 as claimed: whenever every input has a resolvable UTXO the fee is the
\* sum of the inputs' UTXO values less the sum of the output values; the fee
\* is absent whenever some input has no UTXO.
C20_FeeConsistency ==
    last.op = "AnalyzePSKT" =>
        IF AllUtxosResolve(Analyzed)
        THEN Analysis.fee =
                <<UtxoSumBefore(Analyzed, Len(Analyzed.inputs) + 1)
                  - OutSumFrom(Analyzed.tx.vout, 1)>>
        ELSE Analysis.fee = <<>>

\* C20 as the code has it: whenever every input has a resolvable UTXO and
\* the analysis reports no error, the fee is the sum of the inputs' UTXO
\* values less the sum of the output values; the fee is absent whenever some
\* input has no UTXO, and whenever the analysis reports an error.
C20_FeeConsistencyWithoutError ==
    last.op = "AnalyzePSKT" =>
        IF AllUtxosResolve(Analyzed) /\ Analysis.error = <<>>
        THEN Analysis.fee =
                <<UtxoSumBefore(Analyzed, Len(Analyzed.inputs) + 1)
                  - OutSumFrom(Analyzed.tx.vout, 1)>>
        ELSE Analysis.fee = <<>>

\* An analysis of a PSKT with two inputs and their UTXOs that reports the
\* fee.
C20_Witness ==
    /\ last.op = "AnalyzePSKT" /\ Analysis.error = <<>>
    /\ Len(Analyzed.inputs) = 2 /\ AllUtxosResolve(Analyzed)
    /\ Analysis.fee = <<1>>


-----------------------------------------------------------------------------
(* Sequential and parallel signing, checked under SpecSign *)

\* The signer of the copy in slot c.
SecondSigner == CHOOSE name \in signedBy["c"] : TRUE

\* The finalize flags with which the second signer makes the copy in slot c
\* of the PSKT handed out.
SecondFlags ==
    {f \in BOOLEAN : SignAll(Provider(SecondSigner), pskts["a"], f) = pskts["c"]}

\* The PSKT signed in sequence: the copy the first signer signed, signed by
\* the second signer as it signed its own copy.
Sequential(f) == SignAll(Provider(SecondSigner), pskts["b"], f)

\* C23 as claimed: the PSKT signed by two signers in sequence and the
\* combination of the copies each signed on its own hold the same partial
\* signatures in every input, and FinalizePSKT returns the same on both.
C23_SequentialIsParallel ==
    (last.op = "Combine" /\ last.args = <<"b", "c">> /\ SignedApart) =>
        \A f \in SecondFlags :
           /\ \A i \in DOMAIN last.out.inputs :
                 Sequential(f).inputs[i].partial_sigs = last.out.inputs[i].partial_sigs
           /\ FinalizePSKT(Sequential(f)).ret = FinalizePSKT(last.out).ret

\* C23: FinalizePSKT returns the same on the PSKT signed by two signers in
\* sequence and on the combination of the copies each signed on its own; the
\* two hold the same partial signatures in every input that is finalized in
\* neither, which is every input when none of the signers finalizes.
C23_SequentialIsParallelUnlessFinalized ==
    (last.op = "Combine" /\ last.args = <<"b", "c">> /\ SignedApart) =>
        \A f \in SecondFlags :
           /\ \A i \in DOMAIN last.out.inputs :
                 (/\ ~PSKTInputSigned(Sequential(f).inputs[i])
                  /\ ~PSKTInputSigned(last.out.inputs[i])) =>
                    Sequential(f).inputs[i].partial_sigs
                       = last.out.inputs[i].partial_sigs
           /\ FinalizePSKT(Sequential(f)).ret = FinalizePSKT(last.out).ret

\* The two cosigners of a 2-of-2 input signed their copies without
\* finalizing; the combination and the PSKT signed in sequence both hold the
\* two signatures and both finalize.
C23_Witness ==
    /\ last.op = "Combine" /\ last.args = <<"b", "c">> /\ SignedApart
    /\ MultisigKeys(pskts["a"], 1) # <<>>
    /\ FALSE \in SecondFlags
    /\ MapKeys(last.out.inputs[1].partial_sigs) = {"k1", "k2"}
    /\ MapKeys(Sequential(FALSE).inputs[1].partial_sigs) = {"k1", "k2"}
    /\ FinalizePSKT(last.out).ret

-----------------------------------------------------------------------------
(* Properties of joinpskts, checked under SpecJoin *)

\* The PSKTs the last joinpskts was called with.
Joined == [k \in DOMAIN last.args |-> pskts[last.args[k]]]

\* The outpoints that are an input of more than one of the PSKTs.
SharedOutpoints(psktxs) ==
    {o \in UNION {{psktxs[k].tx.vin[i].prevout : i \in DOMAIN psktxs[k].tx.vin} :
                    k \in DOMAIN psktxs} :
        \E k \in DOMAIN psktxs, l \in DOMAIN psktxs :
           /\ k < l
           /\ \E i \in DOMAIN psktxs[k].tx.vin : psktxs[k].tx.vin[i].prevout = o
           /\ \E j \in DOMAIN psktxs[l].tx.vin : psktxs[l].tx.vin[j].prevout = o}

\* C21: joinpskts refuses to join PSKTs of which more than one has the same
\* outpoint as an input, a PSKT joined with itself included: it fails with
\* the error "Input txid:pos exists in multiple PSKTs", txid:pos being such
\* an outpoint, and returns no PSKT.
C21_JoinRefusesSharedInput ==
    (/\ last.op = "joinpskts" /\ Len(last.args) >= 2
     /\ SharedOutpoints(Joined) # {}) =>
        /\ last.out = <<>>
        /\ Len(last.ret) = 3
        /\ last.ret[1] = "Input %s:%d exists in multiple PSKTs"
        /\ [hash |-> last.ret[2], n |-> last.ret[3]] \in SharedOutpoints(Joined)

\* joinpskts refused to join a PSKT of two inputs with itself.
C21_Witness ==
    /\ last.op = "joinpskts" /\ last.out = <<>>
    /\ last.args = <<"a", "a">>
    /\ Len(pskts["a"].tx.vin) = 2
    /\ Cardinality(SharedOutpoints(Joined)) = 2

-----------------------------------------------------------------------------
(* The records of a joined PSKT, checked under SpecJoin *)

\* The inputs of the PSKTs from position k on, in order, each as the pair of
\* its transaction input and its record without partial signatures and final
\* scripts.
RECURSIVE JoinedInputs(_, _)
JoinedInputs(psktxs, k) ==
    IF k > Len(psktxs)
    THEN <<>>
    ELSE [i \in DOMAIN psktxs[k].tx.vin |->
            <<psktxs[k].tx.vin[i],
              [psktxs[k].inputs[i] EXCEPT !.partial_sigs = {},
                                          !.final_script_sig = <<>>,
                                          !.final_script_witness = <<>>]>>]
         \o JoinedInputs(psktxs, k + 1)

\* The outputs of the PSKTs from position k on, in order, each as the pair of
\* its transaction output and its record.
RECURSIVE JoinedOutputs(_, _)
JoinedOutputs(psktxs, k) ==
    IF k > Len(psktxs)
    THEN <<>>
    ELSE [i \in DOMAIN psktxs[k].tx.vout |->
            <<psktxs[k].tx.vout[i], psktxs[k].outputs[i]>>]
         \o JoinedOutputs(psktxs, k + 1)

\* The sequence got is a permutation of the sequence wanted.
IsPermutationOf(got, wanted) ==
    /\ Len(got) = Len(wanted)
    /\ \E p \in ShuffleOrders(Len(wanted)) :
          \A i \in DOMAIN got : got[i] = wanted[p[i]]

\* C34: when the PSKTs joined have pairwise different outpoints, the inputs
\* of the PSKT joinpskts returns, each transaction input paired with its
\* record, are a permutation of the inputs of all the PSKTs joined with the
\* partial signatures, final scriptSig and final witness of every record
\* cleared, and its outputs, each transaction output paired with its record,
\* are a permutation of the outputs of all the PSKTs joined.
C34_JoinPermutesPairs ==
    (/\ last.op = "joinpskts" /\ Len(last.args) >= 2
     /\ SharedOutpoints(Joined) = {}) =>
        /\ last.out # <<>>
        /\ Len(last.out[1].inputs) = Len(last.out[1].tx.vin)
        /\ Len(last.out[1].outputs) = Len(last.out[1].tx.vout)
        /\ IsPermutationOf([i \in DOMAIN last.out[1].tx.vin |->
                              <<last.out[1].tx.vin[i], last.out[1].inputs[i]>>],
                           JoinedInputs(Joined, 1))
        /\ IsPermutationOf([i \in DOMAIN last.out[1].tx.vout |->
                              <<last.out[1].tx.vout[i], last.out[1].outputs[i]>>],
                           JoinedOutputs(Joined, 1))

\* joinpskts returned the join of a PSKT of one input and one of two inputs,
\* all of them signed and finalized and the outputs with different records,
\* in an order other than the order given: the last input and the last output
\* first.
C34_Witness ==
    /\ last.op = "joinpskts" /\ last.out # <<>> /\ last.args = <<"a", "b">>
    /\ Len(pskts["a"].tx.vin) = 1 /\ Len(pskts["b"].tx.vin) = 2
    /\ pskts["a"].inputs[1].final_script_sig # <<>>
    /\ pskts["b"].inputs[2].partial_sigs # {}
    /\ Len(pskts["a"].outputs) = 1 /\ Len(pskts["b"].outputs) = 1
    /\ pskts["a"].outputs[1] # pskts["b"].outputs[1]
    /\ last.out[1].tx.vin[1] = pskts["b"].tx.vin[2]
    /\ last.out[1].inputs[1].redeem_script = "v2"
    /\ last.out[1].tx.vout[1] = pskts["b"].tx.vout[1]
    /\ last.out[1].outputs[1] = pskts["b"].outputs[1]

\* The union of maps in the order given, the record of a key being the one
\* of the first map that has the key.
RECURSIVE UnionFirstWins(_, _)
UnionFirstWins(maps, k) ==
    IF k > Len(maps)
    THEN {}
    ELSE LET rest == UnionFirstWins(maps, k + 1)
         IN  maps[k] \cup {e \in rest : \A f \in maps[k] : f[1] # e[1]}

\* C39: the PSKT joinpskts returns has at global scope the extended public
\* keys of all the PSKTs joined, every key under its origin, and their
\* unknown records, a key that several of them have with the record of the
\* first.
C39_JoinKeepsGlobals ==
    (last.op = "joinpskts" /\ last.out # <<>>) =>
        /\ \A o \in {e[1] : e \in UNION {Joined[k].m_xpubs : k \in DOMAIN Joined}} :
              \E e \in last.out[1].m_xpubs :
                 /\ e[1] = o
                 /\ e[2] = UNION {f[2] : f \in
                              {g \in UNION {Joined[k].m_xpubs : k \in DOMAIN Joined} :
                                  g[1] = o}}
        /\ last.out[1].unknown =
              UnionFirstWins([k \in DOMAIN Joined |-> Joined[k].unknown], 1)

-----------------------------------------------------------------------------
(* The fee line of the dialog, checked under SpecAnalyze *)

\* C36: renderTransaction shows "Unable to calculate transaction fee or total
\* transaction amount." exactly when the analysis of the PSKT has no fee, and
\* otherwise shows the fee of the analysis, a fee of zero too.
C36_UnableIffNoFee ==
    (last.op = "renderTransaction") =>
        IF last.out[1].fee = <<>>
        THEN last.ret =
               <<"Unable to calculate transaction fee or total transaction amount.">>
        ELSE last.ret = <<"Pays transaction fee: ", last.out[1].fee[1]>>

-----------------------------------------------------------------------------
(* The buttons of the dialog, checked under SpecDialog *)

\* C35: whatever PSKTs are opened and however often the buttons are clicked,
\* the broadcast button is enabled only while the PSKT of the dialog is
\* complete, that is while FinalizePSKT succeeds on it, so that a click on
\* the button does not end in "Unknown error processing transaction."; and
\* the node is handed a transaction only when FinalizeAndExtractPSKT returned
\* true on the PSKT of the dialog, the transaction being the one extracted.
C35_BroadcastOnlyWhenComplete ==
    /\ dialog.broadcastEnabled => FinalizePSKT(pskts["a"]).ret
    /\ (last.op = "broadcastTransaction") =>
          /\ last.ret # "Unknown error processing transaction."
          /\ last.out # <<>> =>
                /\ FinalizeAndExtractPSKT(last.args[1], EmptyTx).ret
                /\ last.out[1] = FinalizeAndExtractPSKT(last.args[1], EmptyTx).result

-----------------------------------------------------------------------------
(* Final scripts under the core operations, checked under Spec *)

\* C37: a step of Merge, SignPSKTInput, UpdatePSKTOutput or FinalizePSKT
\* leaves every finalized input finalized, and leaves a final scriptSig and a
\* final witness that were set as they were.
C37_FinalizedIsStable ==
    [][last'.op \in {"Merge", "SignPSKTInput", "UpdatePSKTOutput", "FinalizePSKT"} =>
          \A s \in Slots :
             /\ Len(pskts'[s].inputs) = Len(pskts[s].inputs)
             /\ \A i \in DOMAIN pskts[s].inputs :
                   LET x == pskts[s].inputs[i]
                       r == pskts'[s].inputs[i]
                   IN  /\ PSKTInputSigned(x) => PSKTInputSigned(r)
                       /\ x.final_script_sig # <<>> =>
                             r.final_script_sig = x.final_script_sig
                       /\ x.final_script_witness # <<>> =>
                             r.final_script_witness = x.final_script_witness]_vars

\* A PSKT with a finalized input has had merged into it a PSKT of the same
\* transaction in which that input is not finalized and holds a partial
\* signature.
C37_Witness ==
    /\ last.op = "Merge" /\ last.ret = TRUE
    /\ \E i \in DOMAIN pskts["a"].inputs :
          /\ PSKTInputSigned(pskts["a"].inputs[i])
          /\ ~PSKTInputSigned(pskts["b"].inputs[i])
          /\ pskts["b"].inputs[i].partial_sigs # {}

-----------------------------------------------------------------------------
(* What a finalized input holds, checked under Spec *)

\* C38: after FinalizePSKT every finalized input of the PSKT holds no partial
\* signatures, no key paths, no redeem script and no witness script beside
\* its final scriptSig and final witness.
C38_FinalizedHoldsOnlyFinals ==
    (last.op = "FinalizePSKT") =>
        \A i \in DOMAIN pskts["a"].inputs :
           PSKTInputSigned(pskts["a"].inputs[i]) =>
              /\ pskts["a"].inputs[i].partial_sigs = {}
              /\ pskts["a"].inputs[i].hd_keypaths = {}
              /\ pskts["a"].inputs[i].redeem_script = ""
              /\ pskts["a"].inputs[i].witness_script = ""

-----------------------------------------------------------------------------
(* The shapes of an analysis, checked under SpecAnalyze *)

\* C40: an analysis that AnalyzePSKT returns is either valid (no error, next
\* above CREATOR, one input entry for every input of the transaction) or
\* invalid (an error, next = CREATOR, no input entries, no fee and no
\* estimates), never both; and estimated_vsize and estimated_feerate are
\* there together, and only when the fee is there and every input has its
\* signing data complete: it has its UTXO, no public key, redeem script or
\* witness script is reported missing, and SignPSKTInput completes on it
\* once the signatures are supplied, as the dummy signature creator does.
C40_TwoShapes ==
    (last.op = "AnalyzePSKT" /\ ~Analysis.aborted) =>
        /\ \/ /\ Analysis.error = <<>>
              /\ Analysis.next > CREATOR
              /\ Len(Analysis.inputs) = Len(Analyzed.tx.vin)
           \/ /\ Analysis.error # <<>>
              /\ Analysis.next = CREATOR
              /\ Analysis.inputs = <<>>
              /\ Analysis.fee = <<>>
              /\ Analysis.estimated_vsize = <<>>
              /\ Analysis.estimated_feerate = <<>>
        /\ (Analysis.estimated_vsize # <<>>) <=> (Analysis.estimated_feerate # <<>>)
        /\ (Analysis.estimated_vsize # <<>>) =>
              /\ Analysis.fee # <<>>
              /\ \A i \in DOMAIN Analysis.inputs :
                    /\ Analysis.inputs[i].has_utxo
                    /\ SignPSKTInput(DUMMY_SIGNING_PROVIDER, Analyzed, i, <<>>,
                                     1, TRUE).ret
                    /\ Analysis.inputs[i].missing_pubkeys = <<>>
                    /\ Analysis.inputs[i].missing_redeem_script = ""
                    /\ Analysis.inputs[i].missing_witness_script = ""

\* A valid analysis with a fee and both estimates, of a PSKT of two inputs of
\* which one still waits for the signer.
C40_Witness ==
    /\ last.op = "AnalyzePSKT" /\ Analysis.error = <<>>
    /\ Len(Analysis.inputs) = 2
    /\ Analysis.fee # <<>>
    /\ Analysis.estimated_vsize # <<>> /\ Analysis.estimated_feerate # <<>>
    /\ \E i \in DOMAIN Analysis.inputs : Analysis.inputs[i].next = SIGNER

-----------------------------------------------------------------------------
(* The finalizepskt RPC, checked under SpecAnalyze *)

\* C25: finalizepskt always returns "complete"; it returns "hex", the
\* extracted transaction, and no "pskt" iff every input is finalized by
\* FinalizePSKT and extract is true or left out; otherwise it returns "pskt"
\* and no "hex", the PSKT being the one given with the final scripts filled
\* in for the inputs that are complete and for no other.
C25_FinalizeRpcResult ==
    (last.op = "finalizepskt" /\ last.ret = "") =>
        LET result == last.out[1]
            given == pskts[last.args[1]]
            extract == last.args[2] = <<>> \/ last.args[2][1]
            finalized == FinalizePSKT(given)
            all_final == \A i \in DOMAIN finalized.pskt.inputs :
                            PSKTInputSigned(finalized.pskt.inputs[i])
        IN  /\ result.complete = <<all_final>>
            /\ (result.hex # <<>>) = (all_final /\ extract)
            /\ (result.pskt # <<>>) = (result.hex = <<>>)
            /\ result.hex # <<>> =>
                  result.hex[1] =
                     [given.tx EXCEPT !.vin = [i \in DOMAIN given.tx.vin |->
                         [given.tx.vin[i] EXCEPT
                            !.scriptSig = finalized.pskt.inputs[i].final_script_sig,
                            !.scriptWitness =
                                finalized.pskt.inputs[i].final_script_witness]]]
            /\ result.pskt # <<>> =>
                  /\ result.pskt[1].tx = given.tx
                  /\ \A i \in DOMAIN given.inputs :
                        IF SignPSKTInput(DUMMY_SIGNING_PROVIDER, given, i,
                                         <<PrecomputePSKTData(given)>>, SIGHASH_ALL,
                                         TRUE).ret
                        THEN PSKTInputSigned(result.pskt[1].inputs[i])
                        ELSE ~PSKTInputSigned(result.pskt[1].inputs[i])

\* finalizepskt with extract set to false on a PSKT of two inputs that are
\* both complete and not finalized yet: the PSKT with both finalized comes
\* back, complete, and no hex.
C25_Witness ==
    /\ last.op = "finalizepskt" /\ last.ret = ""
    /\ last.args = <<"a", <<FALSE>> >>
    /\ Len(pskts["a"].inputs) = 2
    /\ \A i \in 1..2 : ~PSKTInputSigned(pskts["a"].inputs[i])
    /\ last.out[1].complete = <<TRUE>>
    /\ last.out[1].hex = <<>>
    /\ \A i \in 1..2 : PSKTInputSigned(last.out[1].pskt[1].inputs[i])


-----------------------------------------------------------------------------
(* Merge as a frame: what a's fields hold afterwards, checked under SpecMerge *)

\* A first-writer-wins field f (empty when it equals `empty`) of the merged
\* record r: x's value where x has one, y's otherwise.
FirstWins(x, y, r, f, empty) == r[f] = IF x[f] # empty THEN x[f] ELSE y[f]

\* The merged map rm holds the keys of xm and ym, a key of xm with xm's value
\* and any other with ym's.
MapFirstWins(xm, ym, rm) ==
    /\ IsMap(rm)
    /\ MapKeys(rm) = MapKeys(xm) \cup MapKeys(ym)
    /\ \A k \in MapKeys(rm) :
          MapGet(rm, k) = IF k \in MapKeys(xm) THEN MapGet(xm, k) ELSE MapGet(ym, k)

InputFirstWins(x, y, r) ==
    /\ FirstWins(x, y, r, "non_witness_utxo", <<>>)
    /\ IF ~TxOutIsNull(x.witness_utxo) THEN r.witness_utxo = x.witness_utxo
       ELSE IF ~TxOutIsNull(y.witness_utxo) THEN r.witness_utxo = y.witness_utxo
       ELSE TxOutIsNull(r.witness_utxo)
    /\ \A f \in {"redeem_script", "witness_script", "m_tap_key_sig",
                 "m_tap_internal_key", "m_tap_merkle_root"} :
          FirstWins(x, y, r, f, "")
    /\ \A f \in {"final_script_sig", "final_script_witness"} :
          FirstWins(x, y, r, f, <<>>)
    /\ \A f \in {"partial_sigs", "ripemd160_preimages", "sha256_preimages",
                 "hash160_preimages", "hash256_preimages", "hd_keypaths",
                 "unknown", "m_tap_script_sigs", "m_tap_scripts",
                 "m_tap_bip32_paths"} : MapFirstWins(x[f], y[f], r[f])

\* C29: after a Merge(a, b) that returned true, every optional field set in a
\* (the two UTXO forms, the redeem and witness scripts, the final scriptSig
\* and witness, the Taproot key signature, internal key and merkle root) and
\* every key of a's map-valued fields (partial signatures, preimages, key
\* paths, unknown, the Taproot maps, the global unknown) keeps a's value, the
\* fields and keys absent in a take b's, and the extended keys of each key
\* origin are the union of a's and b's.
C29_MergeOnlyAdds ==
    (last.op = "Merge" /\ last.ret) =>
        LET a == pskts[last.args[1]]
            b == pskts[last.args[2]]
            r == last.out
        IN  /\ \A i \in DOMAIN a.inputs :
                  InputFirstWins(a.inputs[i], b.inputs[i], r.inputs[i])
            /\ MapFirstWins(a.unknown, b.unknown, r.unknown)
            /\ IsMap(r.m_xpubs)
            /\ MapKeys(r.m_xpubs) = MapKeys(a.m_xpubs) \cup MapKeys(b.m_xpubs)
            /\ \A o \in MapKeys(r.m_xpubs) :
                  MapGet(r.m_xpubs, o) =
                      UNION {MapGet(m, o) : m \in {n \in {a.m_xpubs, b.m_xpubs} :
                                                      o \in MapKeys(n)}}

\* A merge of two PSKTs over the same transaction that hold different extended
\* keys for one key origin.
C29_Witness ==
    /\ last.op = "Merge" /\ last.ret
    /\ \E o \in MapKeys(pskts[last.args[1]].m_xpubs) \cap MapKeys(pskts[last.args[2]].m_xpubs) :
          MapGet(pskts[last.args[1]].m_xpubs, o) # MapGet(pskts[last.args[2]].m_xpubs, o)


-----------------------------------------------------------------------------
(* The utxoupdatepskt RPC, checked under SpecAnalyze *)

\* C28: utxoupdatepskt returns every input that had a non_witness_utxo or a
\* witness_utxo as it was given, sets the non_witness_utxo of no input, and
\* sets a witness_utxo only to the output of the coin it looked up for the
\* input's prevout, and only when that output's script is a witness program.
C28_UtxoUpdateOnlySegWit ==
    (last.op = "utxoupdatepskt" /\ last.ret = "") =>
        LET given == pskts[last.args[1]]
            view == last.args[3]
            updated == last.out[1]
        IN  \A i \in DOMAIN given.inputs :
               LET x == given.inputs[i]
                   r == updated.inputs[i]
                   prevout == given.tx.vin[i].prevout
               IN  /\ (x.non_witness_utxo # <<>> \/ ~TxOutIsNull(x.witness_utxo)) => r = x
                   /\ r.non_witness_utxo = x.non_witness_utxo
                   /\ r.witness_utxo # x.witness_utxo =>
                         /\ \E t \in view :
                               /\ GetHash(t) = prevout.hash
                               /\ prevout.n < Len(t.vout)
                               /\ r.witness_utxo = t.vout[prevout.n + 1]
                         /\ r.witness_utxo.scriptPubKey \in
                               {"wpkh_k2", "wsh_multi_2of2", "wsh_multi_1of2"}

\* A call that sets the witness_utxo of one input and leaves another input,
\* which spends a coin that is no SegWit output, without a UTXO.
C28_Witness ==
    /\ last.op = "utxoupdatepskt" /\ last.ret = ""
    /\ \E i, j \in DOMAIN pskts[last.args[1]].inputs :
          /\ TxOutIsNull(pskts[last.args[1]].inputs[i].witness_utxo)
          /\ ~TxOutIsNull(last.out[1].inputs[i].witness_utxo)
          /\ pskts[last.args[1]].inputs[j].non_witness_utxo = <<>>
          /\ AccessCoin(last.args[3], pskts[last.args[1]].tx.vin[j].prevout).scriptPubKey = "pkh_k1"
          /\ TxOutIsNull(last.out[1].inputs[j].witness_utxo)


-----------------------------------------------------------------------------
(* Properties of single records, checked under SpecRecords *)

\* Every attribute of the input record is absent or empty.
AllAbsent(input) ==
    /\ TxOutIsNull(input.witness_utxo)
    /\ [input EXCEPT !.witness_utxo = NullTxOut] = BlankInput

\* C26: IsNull returns true exactly when every attribute of the input record
\* (the UTXOs, partial_sigs, sighash_type, the redeem and witness scripts,
\* hd_keypaths, final_script_sig, final_script_witness, the preimage maps, the
\* Taproot fields, the proprietary and the unknown records) is absent or
\* empty.
C26_IsNullIffAllEmpty ==
    last.op = "IsNull" =>
        (last.ret <=> AllAbsent(pskts[last.args[1]].inputs[last.args[2]]))

\* C30: SignPSKTInput on an input that has a final scriptSig or a final
\* witness returns true and leaves the PSKT as it was, whatever the provider,
\* txdata, sighash type and finalize flag, and whatever UTXO the input holds.
C30_SignFinalizedIsNoOp ==
    (/\ last.op = "SignPSKTInput"
     /\ \/ pskts[last.args[1]].inputs[last.args[2]].final_script_sig # <<>>
        \/ pskts[last.args[1]].inputs[last.args[2]].final_script_witness # <<>>) =>
        /\ last.ret
        /\ last.out[1] = pskts[last.args[1]]

\* SignPSKTInput called without txdata on a finalized input whose
\* non_witness_utxo is not the transaction its prevout names.
C30_Witness ==
    /\ last.op = "SignPSKTInput"
    /\ ~last.args[4]
    /\ LET input == pskts[last.args[1]].inputs[last.args[2]]
       IN  /\ input.final_script_witness # <<>>
           /\ input.non_witness_utxo # <<>>
           /\ GetHash(input.non_witness_utxo[1]) #
                 pskts[last.args[1]].tx.vin[last.args[2]].prevout.hash


\* The PSKT with every input's absent witness_utxo in its default form.
WithoutNullUtxo(p) ==
    [p EXCEPT !.inputs = [i \in DOMAIN p.inputs |->
        IF TxOutIsNull(p.inputs[i].witness_utxo)
        THEN [p.inputs[i] EXCEPT !.witness_utxo = NullTxOut] ELSE p.inputs[i]]]

C31_NoFinalizeStaysPartial ==
    (/\ last.op = "SignPSKTInput"
     /\ ~last.args[6]
     /\ pskts[last.args[1]].inputs[last.args[2]].final_script_sig = <<>>
     /\ pskts[last.args[1]].inputs[last.args[2]].final_script_witness = <<>>) =>
        LET p == pskts[last.args[1]]
            r == last.out[1].inputs[last.args[2]]
            finalizing == SignPSKTInput(Provider(last.args[3]), p, last.args[2],
                              IF last.args[4] THEN <<PrecomputePSKTData(p)>> ELSE <<>>,
                              last.args[5], TRUE)
        IN  /\ r.final_script_sig = <<>>
            /\ r.final_script_witness = <<>>
            /\ last.ret = finalizing.ret
            /\ last.ret => r.partial_sigs # {}

\* A call with finalize false that returns true: the signatures are complete
\* and the same call with finalize true would have finalized the input.
C31_Witness ==
    /\ last.op = "SignPSKTInput"
    /\ ~last.args[6]
    /\ last.ret
    /\ pskts[last.args[1]].inputs[last.args[2]].final_script_sig = <<>>
    /\ pskts[last.args[1]].inputs[last.args[2]].partial_sigs = {}
    /\ last.out[1].inputs[last.args[2]].partial_sigs # {}


-----------------------------------------------------------------------------
(* The UTXOs of an input under the core operations, checked under Spec *)

\* C32: a SignPSKTInput that produces a witness signature (the input was not
\* finalized, its UTXO resolves to a witness program, and a partial signature
\* or the final witness is written) sets witness_utxo to the resolved UTXO
\* and leaves non_witness_utxo as it was; and no step of SignPSKTInput,
\* FinalizePSKT or Merge takes a non_witness_utxo away from an input.
C32_WitnessUtxoPutNonWitnessKept ==
    [][/\ last'.op \in {"SignPSKTInput", "FinalizePSKT", "Merge"} =>
            \A s \in Slots :
               /\ Len(pskts'[s].inputs) = Len(pskts[s].inputs)
               /\ \A i \in DOMAIN pskts[s].inputs :
                     pskts[s].inputs[i].non_witness_utxo # <<>> =>
                        pskts'[s].inputs[i].non_witness_utxo =
                           pskts[s].inputs[i].non_witness_utxo
       /\ last'.op = "SignPSKTInput" =>
            LET s == last'.args[1]
                i == last'.args[2]
                x == pskts[s].inputs[i]
                r == pskts'[s].inputs[i]
                g == GetInputUTXO(pskts[s], i)
            IN  (/\ ~PSKTInputSigned(x)
                 /\ g.ret
                 /\ Solver(g.utxo.scriptPubKey).type \in
                       {"WITNESS_V0_KEYHASH", "WITNESS_V0_SCRIPTHASH"}
                 /\ r.final_script_witness # <<>> \/ r.partial_sigs # x.partial_sigs) =>
                    /\ r.witness_utxo = g.utxo
                    /\ r.non_witness_utxo = x.non_witness_utxo]_vars

\* After a SignPSKTInput, an input holds the transaction it spends from, the
\* witness UTXO put beside it, and a partial signature.
C32_Witness ==
    /\ last.op = "SignPSKTInput"
    /\ \E i \in DOMAIN pskts[last.args[1]].inputs :
          LET r == pskts[last.args[1]].inputs[i]
          IN  /\ r.non_witness_utxo # <<>>
              /\ ~TxOutIsNull(r.witness_utxo)
              /\ r.partial_sigs # {}


\* C33: FromSignatureData with complete signature data empties partial_sigs,
\* hd_keypaths, redeem_script and witness_script, stores the scriptSig and
\* the witness the data carries as the final ones, and changes nothing else;
\* FillSignatureData on an input with a final scriptSig or a final witness
\* gives a complete SignatureData that holds those two and nothing else.
C33_CompleteDataFinalizesAndPrunes ==
    /\ (last.op = "FromSignatureData" /\ last.args[3].complete) =>
          LET x == pskts[last.args[1]].inputs[last.args[2]]
              sigdata == last.args[3]
          IN  last.out[1] =
                 [x EXCEPT !.partial_sigs = {}, !.hd_keypaths = {},
                           !.redeem_script = "", !.witness_script = "",
                           !.final_script_sig =
                               IF sigdata.scriptSig # <<>> THEN sigdata.scriptSig ELSE @,
                           !.final_script_witness =
                               IF sigdata.scriptWitness # <<>>
                               THEN sigdata.scriptWitness ELSE @]
    /\ (/\ last.op = "FillSignatureData"
        /\ \/ pskts[last.args[1]].inputs[last.args[2]].final_script_sig # <<>>
           \/ pskts[last.args[1]].inputs[last.args[2]].final_script_witness # <<>>) =>
          LET x == pskts[last.args[1]].inputs[last.args[2]]
          IN  last.out[1] =
                 [BlankSigData EXCEPT !.complete = TRUE,
                                      !.scriptSig = x.final_script_sig,
                                      !.scriptWitness = x.final_script_witness]

\* Complete signature data with a scriptSig is written to an input that holds
\* key paths.
C33_Witness ==
    /\ last.op = "FromSignatureData"
    /\ last.args[3].complete
    /\ last.args[3].scriptSig # <<>>
    /\ pskts[last.args[1]].inputs[last.args[2]].hd_keypaths # {}
    /\ last.out[1].hd_keypaths = {}

=============================================================================
